---- MODULE Spec2Model ----
(***************************************************************************)
(* Doable: the chat tools of src/app/api/teams/[teamId]/chat/route.ts      *)
(* (name resolution, required-field validation, store dispatch) and the    *)
(* refresh observer of src/components/ai/ai-chatbot.tsx.                   *)
(*                                                                         *)
(* JavaScript strings are sequences of one-character strings, so that      *)
(* toLowerCase, === and includes are computed and not assumed.             *)
(***************************************************************************)
EXTENDS Integers, Sequences, FiniteSets, TLC

(***************************************************************************)
(* Bounds of the model                                                     *)
(***************************************************************************)
MaxTurns == 2
MaxLoaded == 2
\* refresh events dispatched to the dashboard, and page mounts
MaxEvents == 2
MaxMounts == 2
\* requests to the members route that are started in one behaviour
MaxRequests == 2

(***************************************************************************)
(* JavaScript values and string primitives                                 *)
(***************************************************************************)
Null == [t |-> "null", s |-> <<>>]
Undef == [t |-> "undefined", s |-> <<>>]
Str(chars) == [t |-> "string", s |-> chars]
Arr(items) == [t |-> "array", s |-> items]
Num(n) == [t |-> "number", s |-> <<n>>]

\* JavaScript truthiness: null, undefined, "" and 0 are falsy; arrays are truthy
Truthy(v) ==
  \/ v.t = "string" /\ Len(v.s) > 0
  \/ v.t = "number" /\ v.s[1] # 0
  \/ v.t = "array"

\* a || b
OrElse(a, b) == IF Truthy(a) THEN a ELSE b

UpperLetters ==
  <<"A","B","C","D","E","F","G","H","I","J","K","L","M",
    "N","O","P","Q","R","S","T","U","V","W","X","Y","Z">>
LowerLetters ==
  <<"a","b","c","d","e","f","g","h","i","j","k","l","m",
    "n","o","p","q","r","s","t","u","v","w","x","y","z">>

LowerChar(c) ==
  IF \E i \in 1..26 : UpperLetters[i] = c
  THEN LowerLetters[CHOOSE i \in 1..26 : UpperLetters[i] = c]
  ELSE c

\* String.prototype.toLowerCase
toLowerCase(str) == [i \in 1..Len(str) |-> LowerChar(str[i])]

\* String.prototype.includes
includes(str, sub) ==
  \E i \in 0..(Len(str) - Len(sub)) : SubSeq(str, i + 1, i + Len(sub)) = sub

\* Array.prototype.includes on an array of strings
arrayIncludes(arr, x) == \E i \in 1..Len(arr) : arr[i] = x

\* Array.prototype.filter
filter(arr, Test(_)) == SelectSeq(arr, Test)

\* Array.prototype.find: the first element satisfying Test (as a one-element
\* sequence), or the empty sequence for undefined
find(arr, Test(_)) ==
  LET hits == SelectSeq(arr, Test)
  IN  IF hits = <<>> THEN <<>> ELSE <<hits[1]>>

(***************************************************************************)
(* String literals of the program and of the inputs                        *)
(***************************************************************************)
s_null == <<"n","u","l","l">>
s_undefined == <<"u","n","d","e","f","i","n","e","d">>
s_unassigned == <<"u","n","a","s","s","i","g","n","e","d">>
s_none == <<"n","o","n","e">>
s_high == <<"h","i","g","h">>
s_empty == <<>>
s_Fix == <<"F","i","x">>
s_Web == <<"W","e","b">>
s_web == <<"w","e","b">>
s_we == <<"w","e">>
s_WEB == <<"W","E","B">>
s_WebApp == <<"W","e","b"," ","A","p","p">>
s_APP == <<"A","P","P">>
s_xyz == <<"x","y","z">>
s_p1 == <<"p","1">>
s_p2 == <<"p","2">>
s_Todo == <<"T","o","d","o">>
s_todo == <<"t","o","d","o">>
s_Done == <<"D","o","n","e">>
s_ws1 == <<"w","s","1">>
s_ws2 == <<"w","s","2">>
s_Kartik == <<"K","a","r","t","i","k">>
s_KARTIK == <<"K","A","R","T","I","K">>
s_Sarah == <<"S","a","r","a","h">>
s_u1 == <<"u","1">>
s_u2 == <<"u","2">>
s_Bug == <<"B","u","g">>
s_bug == <<"b","u","g">>
s_Feature == <<"F","e","a","t","u","r","e">>
s_l1 == <<"l","1">>
s_l2 == <<"l","2">>
s_i1 == <<"i","1">>
s_i2 == <<"i","2">>
s_FixLogin == <<"F","i","x"," ","l","o","g","i","n">>
s_FixLogout == <<"F","i","x"," ","l","o","g","o","u","t">>
s_login == <<"l","o","g","i","n">>
s_fix == <<"f","i","x">>
s_active == <<"a","c","t","i","v","e">>
s_completed == <<"c","o","m","p","l","e","t","e","d">>
s_6366f1 == <<"#","6","3","6","6","f","1">>
s_red == <<"r","e","d">>
s_Api == <<"A","p","i">>
s_API == <<"A","P","I">>
s_dbDown == <<"d","b"," ","d","o","w","n">>
s_cannotReadNull == <<"C","a","n","n","o","t"," ","r","e","a","d"," ","n","u","l","l">>

(***************************************************************************)
(* Team context snapshot (getTeamContext, fetched once per chat request)   *)
(***************************************************************************)
ProjectWeb == [id |-> s_p1, name |-> s_Web, key |-> s_WEB]
ProjectWebApp == [id |-> s_p2, name |-> s_WebApp, key |-> s_APP]
StateTodo == [id |-> s_ws1, name |-> s_Todo]
StateDone == [id |-> s_ws2, name |-> s_Done]
MemberKartik == [userId |-> s_u1, userName |-> s_Kartik]
MemberSarah == [userId |-> s_u2, userName |-> s_Sarah]
LabelBug == [id |-> s_l1, name |-> s_Bug]
LabelFeature == [id |-> s_l2, name |-> s_Feature]

\* the snapshots a request can see: a team with no project, one project, or
\* two projects of which one name contains the other
TeamContexts ==
  { [projects |-> ps,
     workflowStates |-> <<StateTodo, StateDone>>,
     labels |-> <<LabelBug, LabelFeature>>,
     members |-> <<MemberKartik, MemberSarah>>] :
    ps \in { <<>>, <<ProjectWeb>>, <<ProjectWeb, ProjectWebApp>> } }

(***************************************************************************)
(* Tool results and store calls                                            *)
(***************************************************************************)
NoError ==
  [kind |-> "none", fields |-> <<>>, quoted |-> Undef, priorityGuide |-> FALSE,
   projectGuide |-> "none", listing |-> <<>>]

\* An error text: the template it was built from, the field names it
\* enumerates, the raw value it quotes, whether it carries the priority
\* enumeration "low, medium, high, urgent, or none", and which project
\* guidance it carries with the projects it lists.
ErrorText(kind, fields, quoted, priorityGuide, projectGuide, listing) ==
  [kind |-> kind, fields |-> fields, quoted |-> quoted,
   priorityGuide |-> priorityGuide, projectGuide |-> projectGuide,
   listing |-> listing]

NoCall == [op |-> "none", id |-> Undef, data |-> <<>>]
NoIssue == [number |-> 0, title |-> Undef]

Failure(err) == [success |-> FALSE, error |-> err, echo |-> NoIssue]
Success(echo) == [success |-> TRUE, error |-> NoError, echo |-> echo]

\* the message of the error a store call throws: "throw" is an Error with a
\* message, "throwEmpty" an Error without one
thrownMessage(store) == IF store = "throw" THEN Str(s_dbDown) ELSE Str(s_empty)

\* variant: the catch block always answers with its own text
caughtFallbackOnly(message, fallback) ==
  ErrorText(fallback, <<>>, Undef, FALSE, "none", <<>>)

\* catch (error) { return { success: false, error: error.message || fallback } }
caught(message, fallback) ==
  IF Truthy(message)
  THEN ErrorText("storeError", <<>>, message, FALSE, "none", <<>>)
  ELSE ErrorText(fallback, <<>>, Undef, FALSE, "none", <<>>)

\* teamContext.projects.map(p => `${p.name} (${p.key})`)
availableProjects(ctx) ==
  [i \in 1..Len(ctx.projects) |->
     [name |-> ctx.projects[i].name, key |-> ctx.projects[i].key]]

\* the ternaries on teamContext.projects.length > 0
projectGuidance(ctx) == IF Len(ctx.projects) > 0 THEN "listing" ELSE "createFirst"

(***************************************************************************)
(* createIssue.execute                                                     *)
(***************************************************************************)
titleMissing(title) ==
  ~Truthy(title) \/ title = Str(s_null) \/ title = Str(s_undefined)

workflowStateMissing(workflowStateId) ==
  ~Truthy(workflowStateId) \/ workflowStateId = Str(s_null)
    \/ workflowStateId = Str(s_undefined)

\* variant: any falsy priority, and 'none', counts as missing
priorityMissingOrNone(priority) == ~Truthy(priority) \/ priority = Str(s_none)

priorityMissing(priority) == priority = Null \/ priority = Undef

projectMissing(projectId) ==
  projectId = Null \/ projectId = Undef \/ ~Truthy(projectId)
    \/ projectId = Str(s_null) \/ projectId = Str(s_undefined)

\* variant: title and workflow state are only tested for falsiness
missingFieldsFalsyOnly(a) ==
  (IF ~Truthy(a.title) THEN <<"title">> ELSE <<>>)
  \o (IF ~Truthy(a.workflowStateId) THEN <<"status (workflow state)">> ELSE <<>>)
  \o (IF priorityMissing(a.priority) THEN <<"priority">> ELSE <<>>)
  \o (IF projectMissing(a.projectId) THEN <<"project">> ELSE <<>>)

missingFields(a) ==
  (IF titleMissing(a.title) THEN <<"title">> ELSE <<>>)
  \o (IF workflowStateMissing(a.workflowStateId)
      THEN <<"status (workflow state)">> ELSE <<>>)
  \o (IF priorityMissing(a.priority) THEN <<"priority">> ELSE <<>>)
  \o (IF projectMissing(a.projectId) THEN <<"project">> ELSE <<>>)

\* variant: without the branch for priority and project missing together
missingFieldsErrorNoPair(ctx, missing) ==
  LET hasPriority == arrayIncludes(missing, "priority")
      hasProject == arrayIncludes(missing, "project")
      withoutPriority == filter(missing, LAMBDA f : f # "priority")
      withoutProject == filter(missing, LAMBDA f : f # "project")
  IN  IF hasPriority /\ Len(missing) = 1
      THEN ErrorText("priorityOnly", <<"priority">>, Undef, TRUE, "none", <<>>)
      ELSE IF hasProject /\ Len(missing) = 1
      THEN ErrorText("projectOnly", <<"project">>, Undef, FALSE,
                     projectGuidance(ctx), availableProjects(ctx))
      ELSE IF hasPriority
      THEN ErrorText("missingWithPriority", withoutPriority \o <<"priority">>,
                     Undef, TRUE, "none", <<>>)
      ELSE IF hasProject
      THEN ErrorText("missingWithProject", withoutProject \o <<"project">>,
                     Undef, FALSE, projectGuidance(ctx), availableProjects(ctx))
      ELSE ErrorText("missing", missing, Undef, FALSE, "none", <<>>)

\* the branch taken when missingFields.length > 0
missingFieldsError(ctx, missing) ==
  LET hasPriority == arrayIncludes(missing, "priority")
      hasProject == arrayIncludes(missing, "project")
      withoutPriority == filter(missing, LAMBDA f : f # "priority")
      withoutProject == filter(missing, LAMBDA f : f # "project")
  IN  IF hasPriority /\ Len(missing) = 1
      THEN ErrorText("priorityOnly", <<"priority">>, Undef, TRUE, "none", <<>>)
      ELSE IF hasProject /\ Len(missing) = 1
      THEN ErrorText("projectOnly", <<"project">>, Undef, FALSE,
                     projectGuidance(ctx), availableProjects(ctx))
      ELSE IF hasPriority /\ hasProject /\ Len(missing) = 2
      THEN ErrorText("priorityAndProject", <<"priority", "project">>, Undef,
                     TRUE, projectGuidance(ctx), availableProjects(ctx))
      ELSE IF hasPriority
      THEN ErrorText("missingWithPriority", withoutPriority \o <<"priority">>,
                     Undef, TRUE, "none", <<>>)
      ELSE IF hasProject
      THEN ErrorText("missingWithProject", withoutProject \o <<"project">>,
                     Undef, FALSE, projectGuidance(ctx), availableProjects(ctx))
      ELSE ErrorText("missing", missing, Undef, FALSE, "none", <<>>)

\* ws.id === ref || ws.name.toLowerCase() === ref?.toLowerCase()
matchesIdOrName(id, name, ref) ==
  \/ Str(id) = ref
  \/ ref.t = "string" /\ toLowerCase(name) = toLowerCase(ref.s)

\* p.id === ref || p.key.toLowerCase() === ref.toLowerCase()
\*   || p.name.toLowerCase() === ref.toLowerCase()
matchesProject(p, ref) ==
  \/ Str(p.id) = ref
  \/ toLowerCase(p.key) = toLowerCase(ref.s)
  \/ toLowerCase(p.name) = toLowerCase(ref.s)

firstWorkflowStateId(ctx) ==
  IF Len(ctx.workflowStates) > 0 THEN Str(ctx.workflowStates[1].id) ELSE Undef

createIssueWorkflowState(ctx, workflowStateId) ==
  LET wanted == OrElse(OrElse(workflowStateId, firstWorkflowStateId(ctx)),
                       firstWorkflowStateId(ctx))
      workflowState == find(ctx.workflowStates,
                            LAMBDA ws : matchesIdOrName(ws.id, ws.name, wanted))
  IN  IF workflowState # <<>> THEN Str(workflowState[1].id) ELSE wanted

\* the project found for a truthy projectId, or <<>>
createIssueProject(ctx, projectId) ==
  find(ctx.projects, LAMBDA p : matchesProject(p, projectId))

createIssueAssignee(ctx, assigneeId) ==
  IF Truthy(assigneeId)
  THEN LET member == find(ctx.members,
                          LAMBDA m : matchesIdOrName(m.userId, m.userName, assigneeId))
       IN  IF member # <<>> THEN Str(member[1].userId) ELSE assigneeId
  ELSE assigneeId

resolveLabel(ctx, labelIdOrName) ==
  LET label == find(ctx.labels,
                    LAMBDA l : matchesIdOrName(l.id, l.name, Str(labelIdOrName)))
  IN  IF label # <<>> THEN label[1].id ELSE labelIdOrName

resolveLabels(ctx, labelIds) ==
  IF Truthy(labelIds) /\ Len(labelIds.s) > 0
  THEN Arr([i \in 1..Len(labelIds.s) |-> resolveLabel(ctx, labelIds.s[i])])
  ELSE labelIds

\* priority ?? 'none'
issuePriority(priority) ==
  IF priority = Null \/ priority = Undef THEN Str(s_none) ELSE priority

\* resolvedProjectId after the project block
createIssueProjectId(ctx, projectId) ==
  IF Truthy(projectId) /\ createIssueProject(ctx, projectId) # <<>>
  THEN Str(createIssueProject(ctx, projectId)[1].id)
  ELSE projectId

\* the data object handed to createIssue of the store
createIssueData(ctx, a) ==
  [title |-> OrElse(a.title, Str(s_empty)),
   description |-> OrElse(a.description, Undef),
   projectId |-> createIssueProjectId(ctx, a.projectId),
   workflowStateId |-> createIssueWorkflowState(ctx, a.workflowStateId),
   assigneeId |-> OrElse(createIssueAssignee(ctx, a.assigneeId), Undef),
   priority |-> issuePriority(a.priority),
   estimate |-> OrElse(a.estimate, Undef),
   labelIds |-> OrElse(resolveLabels(ctx, a.labelIds), Undef)]

\* the whole execute: the result returned to the model and the store call
\* made; store is what the store call does ("ok", "null", "throw" or
\* "throwEmpty")
createIssueExecute(ctx, a, store) ==
  LET missing == missingFields(a)
  IN  IF Len(missing) > 0
      THEN [result |-> Failure(missingFieldsError(ctx, missing)), call |-> NoCall]
      ELSE IF Truthy(a.projectId) /\ createIssueProject(ctx, a.projectId) = <<>>
      THEN [result |-> Failure(ErrorText("projectNotFound", <<>>, a.projectId, FALSE,
                                         projectGuidance(ctx), availableProjects(ctx))),
            call |-> NoCall]
      ELSE LET data == createIssueData(ctx, a)
               call == [op |-> "createIssue", id |-> Undef, data |-> data]
           IN  IF store = "ok"
               THEN [result |-> Success([number |-> 1, title |-> data.title]),
                     call |-> call]
               ELSE IF store = "null"
               THEN [result |-> Failure(ErrorText("failedToCreate", <<>>, Undef,
                                                  FALSE, "none", <<>>)),
                     call |-> call]
               ELSE [result |-> Failure(caught(thrownMessage(store), "failedToCreate")),
                     call |-> call]

(***************************************************************************)
(* updateIssue.execute                                                     *)
(***************************************************************************)
\* a key that the spread leaves out of the update object
Absent == [t |-> "absent", s |-> <<>>]

\* variant: the search stops at the first issue whose title matches
firstMatchingIssue(issues, title) ==
  find(issues, LAMBDA issue : includes(toLowerCase(issue.title), toLowerCase(title.s)))

\* issues.filter(issue => issue.title.toLowerCase().includes(title.toLowerCase()))
matchingIssues(issues, title) ==
  filter(issues, LAMBDA issue : includes(toLowerCase(issue.title), toLowerCase(title.s)))

updateIssueWorkflowState(ctx, workflowStateId) ==
  IF Truthy(workflowStateId)
  THEN LET workflowState ==
             find(ctx.workflowStates,
                  LAMBDA ws : matchesIdOrName(ws.id, ws.name, workflowStateId))
       IN  IF workflowState # <<>> THEN Str(workflowState[1].id) ELSE workflowStateId
  ELSE workflowStateId

isUnassignToken(assigneeId) ==
  assigneeId = Str(s_unassigned) \/ assigneeId = Str(s_null)
    \/ assigneeId = Str(s_undefined)

\* <<resolvedAssigneeId, resolvedAssigneeName>>
updateIssueAssignee(ctx, assigneeId) ==
  IF Truthy(assigneeId) /\ ~isUnassignToken(assigneeId)
  THEN LET member == find(ctx.members,
                          LAMBDA m : matchesIdOrName(m.userId, m.userName, assigneeId))
       IN  IF member # <<>>
           THEN <<Str(member[1].userId), Str(member[1].userName)>>
           ELSE <<assigneeId, Null>>
  ELSE IF assigneeId = Null \/ isUnassignToken(assigneeId)
  THEN <<Null, Null>>
  ELSE <<assigneeId, Null>>

\* x ?? null
orNull(x) == IF x = Null \/ x = Undef THEN Null ELSE x

\* variant: the assignee is spread into the update without the test on
\* undefined
updateIssueDataAlwaysAssignee(ctx, a) ==
  LET wsId == updateIssueWorkflowState(ctx, a.workflowStateId)
      assignee == updateIssueAssignee(ctx, a.assigneeId)
      labels == resolveLabels(ctx, a.labelIds)
  IN  [title |-> IF Truthy(a.newTitle) THEN a.newTitle ELSE Absent,
       description |-> IF a.description # Undef THEN a.description ELSE Absent,
       workflowStateId |-> IF Truthy(wsId) THEN wsId ELSE Absent,
       assigneeId |-> orNull(assignee[1]),
       assignee |-> assignee[2],
       priority |-> IF Truthy(a.priority) THEN a.priority ELSE Absent,
       estimate |-> IF Truthy(a.estimate) THEN a.estimate ELSE Absent,
       labelIds |-> IF Truthy(labels) THEN labels ELSE Absent]

\* the update object built by the spreads
updateIssueData(ctx, a) ==
  LET wsId == updateIssueWorkflowState(ctx, a.workflowStateId)
      assignee == updateIssueAssignee(ctx, a.assigneeId)
      labels == resolveLabels(ctx, a.labelIds)
  IN  [title |-> IF Truthy(a.newTitle) THEN a.newTitle ELSE Absent,
       description |-> IF a.description # Undef THEN a.description ELSE Absent,
       workflowStateId |-> IF Truthy(wsId) THEN wsId ELSE Absent,
       assigneeId |-> IF a.assigneeId # Undef THEN orNull(assignee[1]) ELSE Absent,
       assignee |-> IF a.assigneeId # Undef THEN assignee[2] ELSE Absent,
       priority |-> IF Truthy(a.priority) THEN a.priority ELSE Absent,
       estimate |-> IF Truthy(a.estimate) THEN a.estimate ELSE Absent,
       labelIds |-> IF Truthy(labels) THEN labels ELSE Absent]

\* issues is what getIssues returns when it is asked
updateIssueExecute(ctx, a, issues, store) ==
  LET byTitle == Truthy(a.title) /\ ~Truthy(a.issueId)
      matches == IF byTitle THEN matchingIssues(issues, a.title) ELSE <<>>
      resolvedIssueId == IF byTitle /\ Len(matches) = 1
                         THEN Str(matches[1].id) ELSE a.issueId
  IN  IF byTitle /\ Len(matches) = 0
      THEN [result |-> Failure(ErrorText("noIssueFound", <<>>, a.title, FALSE,
                                         "none", <<>>)),
            call |-> NoCall]
      ELSE IF byTitle /\ Len(matches) > 1
      THEN [result |-> Failure(ErrorText("multipleIssues", <<>>, a.title, FALSE,
                                         "none", matches)),
            call |-> NoCall]
      ELSE IF ~Truthy(resolvedIssueId)
      THEN [result |-> Failure(ErrorText("issueIdOrTitle", <<>>, Undef, FALSE,
                                         "none", <<>>)),
            call |-> NoCall]
      ELSE LET data == updateIssueData(ctx, a)
               call == [op |-> "updateIssue", id |-> resolvedIssueId, data |-> data]
           IN  IF store = "ok"
               THEN [result |-> Success([number |-> 1, title |-> Str(s_Fix)]),
                     call |-> call]
               ELSE IF store = "null"
               THEN [result |-> Failure(ErrorText("issueNotFound", <<>>, Undef,
                                                  FALSE, "none", <<>>)),
                     call |-> call]
               ELSE [result |-> Failure(caught(thrownMessage(store), "failedToUpdate")),
                     call |-> call]

(***************************************************************************)
(* updateProject.execute                                                   *)
(***************************************************************************)
\* projects.filter(project => project.name.toLowerCase().includes(name.toLowerCase()))
matchingProjects(ctx, name) ==
  filter(ctx.projects,
         LAMBDA project : includes(toLowerCase(project.name), toLowerCase(name.s)))

\* leadId ? teamContext.members.find(m => m.userId === leadId)?.userName : undefined
leadName(ctx, leadId) ==
  LET member == find(ctx.members, LAMBDA m : Str(m.userId) = leadId)
  IN  IF Truthy(leadId) /\ member # <<>> THEN Str(member[1].userName) ELSE Undef

updateProjectData(ctx, a) ==
  [name |-> IF Truthy(a.newName) THEN a.newName ELSE Absent,
   description |-> IF a.description # Undef THEN a.description ELSE Absent,
   status |-> IF Truthy(a.status) THEN a.status ELSE Absent,
   color |-> IF Truthy(a.color) THEN a.color ELSE Absent,
   icon |-> IF Truthy(a.icon) THEN a.icon ELSE Absent,
   leadId |-> IF a.leadId # Undef THEN a.leadId ELSE Absent,
   lead |-> IF a.leadId # Undef THEN leadName(ctx, a.leadId) ELSE Absent]

updateProjectExecute(ctx, a, store) ==
  LET byName == Truthy(a.name) /\ ~Truthy(a.projectId)
      matches == IF byName THEN matchingProjects(ctx, a.name) ELSE <<>>
      resolvedProjectId == IF byName /\ Len(matches) = 1
                           THEN Str(matches[1].id) ELSE a.projectId
  IN  IF byName /\ Len(matches) = 0
      THEN [result |-> Failure(ErrorText("noProjectFound", <<>>, a.name, FALSE,
                                         "none", <<>>)),
            call |-> NoCall]
      ELSE IF byName /\ Len(matches) > 1
      THEN [result |-> Failure(ErrorText("multipleProjects", <<>>, a.name, FALSE,
                                         "none", matches)),
            call |-> NoCall]
      ELSE IF ~Truthy(resolvedProjectId)
      THEN [result |-> Failure(ErrorText("projectIdOrName", <<>>, Undef, FALSE,
                                         "none", <<>>)),
            call |-> NoCall]
      ELSE LET call == [op |-> "updateProject", id |-> resolvedProjectId,
                        data |-> updateProjectData(ctx, a)]
           IN  IF store = "ok"
               THEN [result |-> Success([number |-> 0, title |-> Str(s_Web)]),
                     call |-> call]
               ELSE IF store = "null"
               THEN [result |-> Failure(ErrorText("projectNull", <<>>, Undef,
                                                  FALSE, "none", <<>>)),
                     call |-> call]
               ELSE [result |-> Failure(caught(thrownMessage(store),
                                               "failedToUpdateProject")),
                     call |-> call]

(***************************************************************************)
(* deleteIssue.execute                                                     *)
(***************************************************************************)
\* variant: the issue is not looked up before the delete
issueMissingNever(exists) == FALSE

\* const issue = await getIssueById(teamId, issueId); if (!issue)
issueMissing(exists) == ~exists

\* issues is what getIssues returns when it is asked, exists whether
\* getIssueById finds the issue, store what deleteIssue of the store does
deleteIssueExecute(a, issues, exists, store) ==
  LET byTitle == Truthy(a.title) /\ ~Truthy(a.issueId)
      matches == IF byTitle THEN matchingIssues(issues, a.title) ELSE <<>>
      issueId == IF byTitle /\ Len(matches) = 1 THEN Str(matches[1].id) ELSE a.issueId
  IN  IF byTitle /\ Len(matches) = 0
      THEN [result |-> Failure(ErrorText("noIssueFound", <<>>, a.title, FALSE,
                                         "none", <<>>)),
            call |-> NoCall]
      ELSE IF byTitle /\ Len(matches) > 1
      THEN [result |-> Failure(ErrorText("multipleIssues", <<>>, a.title, FALSE,
                                         "none", matches)),
            call |-> NoCall]
      ELSE IF ~Truthy(issueId)
      THEN [result |-> Failure(ErrorText("issueIdOrTitle", <<>>, Undef, FALSE,
                                         "none", <<>>)),
            call |-> NoCall]
      ELSE IF issueMissing(exists)
      THEN [result |-> Failure(ErrorText("issueNotFound", <<>>, Undef, FALSE,
                                         "none", <<>>)),
            call |-> NoCall]
      ELSE LET call == [op |-> "deleteIssue", id |-> issueId, data |-> <<>>]
           IN  IF store \in {"ok", "null"}
               THEN [result |-> Success([number |-> 1, title |-> Str(s_Fix)]),
                     call |-> call]
               ELSE [result |-> Failure(caught(thrownMessage(store), "failedToDelete")),
                     call |-> call]

(***************************************************************************)
(* createProject.execute                                                   *)
(***************************************************************************)
\* variant: color and status are handed over as given
createProjectDataAsGiven(ctx, a) ==
  [name |-> a.name,
   description |-> a.description,
   key |-> a.key,
   color |-> a.color,
   icon |-> a.icon,
   leadId |-> a.leadId,
   status |-> a.status,
   lead |-> leadName(ctx, a.leadId)]

\* the data object handed to createProject of the store
createProjectData(ctx, a) ==
  [name |-> a.name,
   description |-> a.description,
   key |-> a.key,
   color |-> OrElse(a.color, Str(s_6366f1)),
   icon |-> a.icon,
   leadId |-> a.leadId,
   status |-> OrElse(a.status, Str(s_active)),
   lead |-> leadName(ctx, a.leadId)]

\* a null project makes project.id throw a TypeError inside the try block
createProjectExecute(ctx, a, store) ==
  LET data == createProjectData(ctx, a)
      call == [op |-> "createProject", id |-> Undef, data |-> data]
  IN  IF store = "ok"
      THEN [result |-> Success([number |-> 0, title |-> data.name]), call |-> call]
      ELSE IF store = "null"
      THEN [result |-> Failure(caught(Str(s_cannotReadNull), "failedToCreateProject")),
            call |-> call]
      ELSE [result |-> Failure(caught(thrownMessage(store), "failedToCreateProject")),
            call |-> call]

(***************************************************************************)
(* Keywords, tool names and message texts of the refresh observer          *)
(***************************************************************************)
k_issue == <<"i","s","s","u","e">>
k_created == <<"c","r","e","a","t","e","d">>
k_hasBeenCreated == <<"h","a","s"," ","b","e","e","n"," ","c","r","e","a","t","e","d">>
k_updated == <<"u","p","d","a","t","e","d">>
k_deleted == <<"d","e","l","e","t","e","d">>
k_project == <<"p","r","o","j","e","c","t">>
k_successfully == <<"s","u","c","c","e","s","s","f","u","l","l","y">>
k_createdSuccessfully == <<"c","r","e","a","t","e","d"," ","s","u","c","c","e","s","s","f","u","l","l","y">>
k_removed == <<"r","e","m","o","v","e","d">>
k_member == <<"m","e","m","b","e","r">>
k_added == <<"a","d","d","e","d">>
k_add == <<"a","d","d">>
k_remove == <<"r","e","m","o","v","e">>
k_delete == <<"d","e","l","e","t","e">>
k_list == <<"l","i","s","t">>
k_show == <<"s","h","o","w">>
k_members == <<"m","e","m","b","e","r","s">>
k_invited == <<"i","n","v","i","t","e","d">>
k_invitation == <<"i","n","v","i","t","a","t","i","o","n">>
k_teamMember == <<"t","e","a","m"," ","m","e","m","b","e","r">>
k_revoked == <<"r","e","v","o","k","e","d">>
k_cancelled == <<"c","a","n","c","e","l","l","e","d">>
\* the glyphs tested by includes: "#" and the check mark U+2714, written "$"
k_hash == <<"#">>
k_checkMark == <<"$">>
k_space == <<" ">>
n_createIssue == <<"c","r","e","a","t","e","I","s","s","u","e">>
n_createIssues == <<"c","r","e","a","t","e","I","s","s","u","e","s">>
n_updateIssue == <<"u","p","d","a","t","e","I","s","s","u","e">>
n_updateIssues == <<"u","p","d","a","t","e","I","s","s","u","e","s">>
n_deleteIssue == <<"d","e","l","e","t","e","I","s","s","u","e">>
n_deleteIssues == <<"d","e","l","e","t","e","I","s","s","u","e","s">>
n_createProject == <<"c","r","e","a","t","e","P","r","o","j","e","c","t">>
n_createProjects == <<"c","r","e","a","t","e","P","r","o","j","e","c","t","s">>
n_updateProject == <<"u","p","d","a","t","e","P","r","o","j","e","c","t">>
n_deleteProject == <<"d","e","l","e","t","e","P","r","o","j","e","c","t">>
n_addProjectMember == <<"a","d","d","P","r","o","j","e","c","t","M","e","m","b","e","r">>
n_removeProjectMember == <<"r","e","m","o","v","e","P","r","o","j","e","c","t","M","e","m","b","e","r">>
n_listProjectMembers == <<"l","i","s","t","P","r","o","j","e","c","t","M","e","m","b","e","r","s">>
n_inviteTeamMember == <<"i","n","v","i","t","e","T","e","a","m","M","e","m","b","e","r">>
n_inviteTeamMembers == <<"i","n","v","i","t","e","T","e","a","m","M","e","m","b","e","r","s">>
n_revokeInvitation == <<"r","e","v","o","k","e","I","n","v","i","t","a","t","i","o","n">>
n_removeTeamMember == <<"r","e","m","o","v","e","T","e","a","m","M","e","m","b","e","r">>
t_IssueCreated == <<"I","S","S","U","E"," ","7"," ","C","r","e","a","t","e","d">>
t_MemberAdded == <<"S","a","r","a","h"," ","w","a","s"," ","a","d","d","e","d"," ","t","o"," ","t","h","e"," ","p","r","o","j","e","c","t">>
t_Hello == <<"H","e","l","l","o">>
t_ProjectUpdated == <<"P","r","o","j","e","c","t"," ","u","p","d","a","t","e","d">>
t_Hi == <<"h","i">>

(***************************************************************************)
(* The refresh observer: messages and the scan of one message              *)
(***************************************************************************)
TextPart(text) == [type |-> "text", text |-> Str(text), toolName |-> Undef]
ToolPart(type, toolName) == [type |-> type, text |-> Undef, toolName |-> Str(toolName)]

\* parts.filter(part => part.type === 'text').map(part => part.text || '')
textsOf(parts) ==
  LET textOnly == filter(parts, LAMBDA part : part.type = "text")
  IN  [i \in 1..Len(textOnly) |-> OrElse(textOnly[i].text, Str(s_empty)).s]

\* Array.prototype.join
RECURSIVE join(_, _)
join(strs, sep) ==
  IF strs = <<>> THEN <<>>
  ELSE IF Len(strs) = 1 THEN strs[1]
  ELSE strs[1] \o sep \o join(Tail(strs), sep)

\* variant: the joined text is not lower-cased
textPartsAsWritten(parts) == join(textsOf(parts), k_space)

\* the text the effects scan
textParts(parts) == toLowerCase(join(textsOf(parts), k_space))

\* the text the message list renders: content, else the text parts joined by ''
renderedText(message) ==
  IF Len(message.content) > 0 THEN message.content
  ELSE IF message.hasParts THEN join(textsOf(message.parts), s_empty)
  ELSE s_empty

\* the forEach over message.parts collecting tool names
RECURSIVE partToolNames(_, _)
partToolNames(parts, toolNames) ==
  IF parts = <<>> THEN toolNames
  ELSE LET part == Head(parts)
           first == IF part.type = "tool-call" /\ Truthy(part.toolName)
                    THEN Append(toolNames, part.toolName.s) ELSE toolNames
           second == IF Truthy(part.toolName) /\ ~arrayIncludes(first, part.toolName.s)
                     THEN Append(first, part.toolName.s) ELSE first
       IN  partToolNames(Tail(parts), second)

pushPair(toolNames, cond, single, bulk) ==
  IF cond /\ ~arrayIncludes(toolNames, single) /\ ~arrayIncludes(toolNames, bulk)
  THEN toolNames \o <<single, bulk>> ELSE toolNames

pushOne(toolNames, cond, name) ==
  IF cond /\ ~arrayIncludes(toolNames, name) THEN Append(toolNames, name) ELSE toolNames

issueCreatedPattern(text) ==
  /\ includes(text, k_issue) \/ includes(text, k_hash) \/ includes(text, k_checkMark)
  /\ includes(text, k_created) \/ includes(text, k_hasBeenCreated)

\* the issue patterns
issueTools(text, toolNames) ==
  LET a == pushPair(toolNames, issueCreatedPattern(text), n_createIssue, n_createIssues)
      b == pushPair(a, includes(text, k_issue) /\ includes(text, k_updated),
                    n_updateIssue, n_updateIssues)
  IN  pushPair(b, includes(text, k_issue) /\ includes(text, k_deleted),
               n_deleteIssue, n_deleteIssues)

\* the project and project-member patterns
projectTools(text, toolNames) ==
  IF ~includes(text, k_project) THEN toolNames
  ELSE
  LET a == pushPair(toolNames,
                    includes(text, k_created) \/ includes(text, k_hasBeenCreated)
                      \/ includes(text, k_successfully)
                      \/ includes(text, k_createdSuccessfully)
                      \/ includes(text, k_checkMark),
                    n_createProject, n_createProjects)
      b == pushOne(a, includes(text, k_updated), n_updateProject)
      c == pushOne(b, includes(text, k_deleted) \/ includes(text, k_removed),
                   n_deleteProject)
      memberOps == includes(text, k_member) \/ includes(text, k_added)
                     \/ includes(text, k_removed)
      d == pushOne(c, memberOps /\ (includes(text, k_added) \/ includes(text, k_add)),
                   n_addProjectMember)
      e == pushOne(d, memberOps /\ (includes(text, k_removed) \/ includes(text, k_remove)
                                      \/ includes(text, k_delete)),
                   n_removeProjectMember)
  IN  pushOne(e, memberOps /\ (includes(text, k_list) \/ includes(text, k_show)
                                 \/ includes(text, k_members)),
              n_listProjectMembers)

\* the people patterns
peopleTools(text, toolNames) ==
  LET a == pushPair(toolNames,
                    includes(text, k_invited) \/ includes(text, k_invitation)
                      \/ includes(text, k_teamMember),
                    n_inviteTeamMember, n_inviteTeamMembers)
      b == pushOne(a, includes(text, k_invitation)
                        /\ (includes(text, k_revoked) \/ includes(text, k_cancelled)
                              \/ includes(text, k_removed) \/ includes(text, k_deleted)),
                   n_revokeInvitation)
  IN  pushOne(b, includes(text, k_teamMember)
                   /\ (includes(text, k_removed) \/ includes(text, k_deleted)),
              n_removeTeamMember)

\* toolNames of one message at the end of its scan in the status effect
scanToolNames(message) ==
  IF ~message.hasParts THEN <<>>
  ELSE LET explicit == partToolNames(message.parts, <<>>)
           text == textParts(message.parts)
       IN  IF Len(text) > 0
           THEN peopleTools(text, projectTools(text, issueTools(text, explicit)))
           ELSE explicit

\* [...new Set(toolNames)]
RECURSIVE unique(_)
unique(arr) ==
  IF arr = <<>> THEN <<>>
  ELSE LET front == unique(SubSeq(arr, 1, Len(arr) - 1))
           last == arr[Len(arr)]
       IN  IF arrayIncludes(front, last) THEN front ELSE Append(front, last)

toolStringOf(toolNames) == join(unique(toolNames), k_space)

\* the three tests of the targeted timer callback
refreshesIssues(toolString) ==
  includes(toolString, n_createIssue) \/ includes(toolString, n_createIssues)
    \/ includes(toolString, n_updateIssue) \/ includes(toolString, n_updateIssues)
    \/ includes(toolString, n_deleteIssue) \/ includes(toolString, n_deleteIssues)

refreshesProjects(toolString) ==
  includes(toolString, n_createProject) \/ includes(toolString, n_createProjects)
    \/ includes(toolString, n_updateProject) \/ includes(toolString, n_deleteProject)

refreshesPeople(toolString) ==
  includes(toolString, n_inviteTeamMember) \/ includes(toolString, n_inviteTeamMembers)
    \/ includes(toolString, n_revokeInvitation) \/ includes(toolString, n_removeTeamMember)

AllEvents == {"refresh-issues", "refresh-projects", "refresh-people"}

targetedEvents(toolString) ==
  (IF refreshesIssues(toolString) THEN {"refresh-issues"} ELSE {})
  \cup (IF refreshesProjects(toolString) THEN {"refresh-projects"} ELSE {})
  \cup (IF refreshesPeople(toolString) THEN {"refresh-people"} ELSE {})

\* the success indicators of the messages-changed effect
successIndicators(text) ==
  includes(text, k_created) \/ includes(text, k_successfully)
    \/ includes(text, k_updated) \/ includes(text, k_deleted)
    \/ includes(text, k_removed) \/ includes(text, k_revoked)
    \/ includes(text, k_cancelled) \/ includes(text, k_checkMark)

(***************************************************************************)
(* State                                                                   *)
(***************************************************************************)
VARIABLES
  pc,                  \* chat route: "idle", or "tools" while a request runs
  teamContext,         \* chat route: the snapshot the request fetched
  toolRun,             \* chat route: the tool execution in progress, or NoRun
  chatRequest,         \* chat route: the last request and the status it got
  status,              \* observer: useChat status
  previousStatus,      \* observer: previousStatusRef.current
  messages,            \* observer: useChat messages
  processedMessageIds, \* observer: processedMessageIdsRef.current
  timers,              \* observer: pending setTimeout callbacks
  dispatched,          \* observer: window events dispatched so far
  turn,                \* observer: number of user messages sent
  scans,               \* observer: how often each effect scanned each message id
  page,                \* dashboard: the page that is mounted, or "none"
  pageMount,           \* dashboard: number of page mounts so far
  pageLoading,         \* dashboard: the loading flag of the mounted page
  pageData,            \* dashboard: NoData, or the event of the fetch the list is from
  refreshTimers,       \* dashboard: pending setTimeout callbacks of handleRefresh
  fetches,             \* dashboard: list requests in flight
  issuesCache,         \* dashboard: the module-level cache entry of the issue list:
                       \* "empty", "filled", or "outdated" when filled by a request
                       \* that was sent before the cache was last cleared
  eventCount,          \* dashboard: number of refresh events listened to
  handled,             \* dashboard: the events a mounted page's listener handled
  refetched,           \* dashboard: the events followed by a no-store request
  teamMembers,         \* members route: the rows of db.teamMember
  membersRun,          \* members route: the last request and its response
  invitations,         \* members route: the rows of db.invitation
  memberRequests,      \* members route: the POST and GET requests in flight
  requestCount,        \* members route: number of POST and GET requests started
  middlewareRun        \* middleware: the last page request and what answered it

routeVars == <<pc, teamContext, toolRun, chatRequest>>
chatVars == <<status, previousStatus, messages, processedMessageIds, timers,
              dispatched, turn, scans>>
pageVars == <<page, pageMount, pageLoading, pageData, refreshTimers, fetches,
              issuesCache, eventCount, handled, refetched>>
inviteVars == <<invitations, memberRequests, requestCount>>
membersVars == <<teamMembers, membersRun, invitations, memberRequests,
                 requestCount, middlewareRun>>
vars == <<pc, teamContext, toolRun, chatRequest, status, previousStatus, messages,
          processedMessageIds, timers, dispatched, turn, scans,
          page, pageMount, pageLoading, pageData, refreshTimers, fetches,
          issuesCache, eventCount, handled, refetched, teamMembers, membersRun,
          invitations, memberRequests, requestCount, middlewareRun>>

NoRun == [tool |-> "none"]
NoContext == [projects |-> <<>>, workflowStates |-> <<>>, labels |-> <<>>,
              members |-> <<>>]

\* message ids: loaded messages, then a user and an assistant message per turn
MaxId == MaxLoaded + 2 * MaxTurns

\* the session of a request without a signed-in user
NoSession == "-"
NoChatRequest == [session |-> NoSession, apiKey |-> FALSE, context |-> "unread",
                  status |-> 0]

RouteInit ==
  /\ pc = "idle" /\ teamContext = NoContext /\ toolRun = NoRun
  /\ chatRequest = NoChatRequest

ChatInit ==
  /\ status = "ready"
  /\ previousStatus = "ready"
  /\ messages = <<>>
  /\ processedMessageIds = {}
  /\ timers = {}
  /\ dispatched = {}
  /\ turn = 0
  /\ scans = [id \in 1..MaxId |-> [byStatus |-> 0, byMessages |-> 0]]

\* no list yet, no cache entry
NoData == -1

PageInit ==
  /\ page = "none"
  /\ pageMount = 0
  /\ pageLoading = FALSE
  /\ pageData = NoData
  /\ refreshTimers = {}
  /\ fetches = {}
  /\ issuesCache = "empty"
  /\ eventCount = 0
  /\ handled = {}
  /\ refetched = {}

\* a request without the memberId query parameter
NoMemberId == "-"
NoRequest == [op |-> "none"]

\* the teams and memberships the database starts with: an admin and a
\* developer in t1, an admin and a viewer in t2; u3 belongs to no team
TeamMemberRows ==
  { [id |-> "m1", teamId |-> "t1", userId |-> "u1", role |-> "admin"],
    [id |-> "m2", teamId |-> "t1", userId |-> "u2", role |-> "developer"],
    [id |-> "m3", teamId |-> "t2", userId |-> "u2", role |-> "admin"],
    [id |-> "m4", teamId |-> "t2", userId |-> "u1", role |-> "viewer"] }

\* the invitations the database starts with: u3 invited to t1, u2 invited
\* to t2 where u2 already is a member, and an invitation of u2 to t1 whose
\* expiresAt has passed
InvitationRows ==
  { [id |-> "i1", teamId |-> "t1", email |-> "u3@x", role |-> "developer",
     status |-> "pending", expired |-> FALSE],
    [id |-> "i2", teamId |-> "t2", email |-> "u2@x", role |-> "viewer",
     status |-> "pending", expired |-> FALSE],
    [id |-> "i3", teamId |-> "t1", email |-> "u2@x", role |-> "admin",
     status |-> "pending", expired |-> TRUE] }

MembersInit ==
  /\ teamMembers = TeamMemberRows /\ membersRun = NoRequest
  /\ invitations = InvitationRows /\ memberRequests = {} /\ requestCount = 0

MiddlewareInit == middlewareRun = NoRequest

Init == RouteInit /\ ChatInit /\ PageInit /\ MembersInit /\ MiddlewareInit

(***************************************************************************)
(* Chat route: one request fetches the team context, then runs tools       *)
(***************************************************************************)
CreateIssueArgs ==
  [title : {Null, Undef, Str(s_null), Str(s_Fix)},
   description : {Undef},
   projectId : {Null, Undef, Str(s_null), Str(s_web), Str(s_we), Str(s_WebApp),
                Str(s_p2), Str(s_xyz)},
   workflowStateId : {Undef, Str(s_undefined), Str(s_todo), Str(s_ws2), Str(s_xyz)},
   assigneeId : {Undef, Null, Str(s_unassigned), Str(s_null), Str(s_KARTIK),
                 Str(s_xyz)},
   priority : {Null, Undef, Str(s_none), Str(s_high)},
   estimate : {Undef},
   labelIds : {Null, Arr(<<s_bug, s_xyz>>), Arr(<<s_l2>>)}]

UpdateIssueArgs ==
  [issueId : {Undef, Str(s_i1)},
   title : {Undef, Str(s_fix), Str(s_login)},
   newTitle : {Undef, Str(s_Fix)},
   description : {Undef},
   workflowStateId : {Undef, Str(s_null), Str(s_todo), Str(s_xyz)},
   assigneeId : {Undef, Null, Str(s_unassigned), Str(s_null), Str(s_undefined),
                 Str(s_KARTIK), Str(s_xyz)},
   priority : {Undef, Str(s_high)},
   estimate : {Undef, Num(3)},
   labelIds : {Undef, Arr(<<s_bug, s_xyz>>)}]

UpdateProjectArgs ==
  [projectId : {Undef, Str(s_p1)},
   name : {Undef, Str(s_web), Str(s_we), Str(s_WebApp), Str(s_xyz)},
   newName : {Undef, Str(s_Fix)},
   description : {Undef},
   status : {Undef, Str(s_active)},
   color : {Undef},
   icon : {Undef},
   leadId : {Undef, Str(s_u1)}]

\* what getIssues can return
IssueLists ==
  LET login == [id |-> s_i1, number |-> 1, title |-> s_FixLogin]
      logout == [id |-> s_i2, number |-> 2, title |-> s_FixLogout]
  IN  { <<>>, <<login>>, <<login, logout>> }

DeleteIssueArgs ==
  [title : {Undef, Str(s_fix), Str(s_login), Str(s_xyz)},
   issueId : {Undef, Str(s_i1)}]

CreateProjectArgs ==
  [name : {Str(s_Api)},
   description : {Undef},
   key : {Str(s_API)},
   color : {Undef, Str(s_empty), Str(s_red)},
   icon : {Undef},
   leadId : {Undef, Str(s_u1), Str(s_xyz)},
   status : {Undef, Str(s_completed)}]

\* what a store mutation can do: return the entity, return null, throw an
\* error with a message, or throw an error without one
StoreOutcomes == {"ok", "null", "throw", "throwEmpty"}

\* what getIssues returned to a run that located its issue by title
issuesRead(a, issues) ==
  IF Truthy(a.title) /\ ~Truthy(a.issueId) THEN issues ELSE <<>>

\* what getIssueById returned to a run that asked for its issue
issueRead(a, issues, exists) ==
  LET byTitle == Truthy(a.title) /\ ~Truthy(a.issueId)
      asked == IF byTitle THEN Len(matchingIssues(issues, a.title)) = 1
               ELSE Truthy(a.issueId)
  IN  IF ~asked THEN "unasked" ELSE IF exists THEN "issue" ELSE "null"

\* the outcome of the store call of a run, when the run made one
storeOf(run, store) == IF run.call.op = "none" THEN "unused" ELSE store

\* getUserId, getUser of auth-server-helpers: the id of the session's user;
\* both throw Error("Unauthorized") when there is no session
getUserId(session) ==
  IF session = NoSession THEN [threw |-> TRUE, id |-> NoSession]
  ELSE [threw |-> FALSE, id |-> session]

\* POST up to the stream: the status of the response.  A throw of the
\* helpers or of getTeamContext reaches the outer catch.
chatPostStatus(session, apiKey, context) ==
  LET user == getUserId(session)
  IN  IF user.threw THEN 500
      ELSE IF user.id = NoSession THEN 401
      ELSE IF context = "throws" THEN 500
      ELSE IF ~apiKey THEN 400
      ELSE 200

\* POST: the session, then getTeamContext(teamId), then the API key; with
\* all three the model is given the tools
ChatPost ==
  /\ pc = "idle"
  /\ \E session \in {NoSession, "u1"}, clientApiKey \in BOOLEAN, envApiKey \in BOOLEAN,
        ctx \in TeamContexts, context \in {"ok", "throws"} :
       LET apiKey == clientApiKey \/ envApiKey
           code == chatPostStatus(session, apiKey, context)
           read == ~getUserId(session).threw /\ session # NoSession
       IN  /\ chatRequest' = [session |-> session, apiKey |-> apiKey,
                              context |-> IF read THEN context ELSE "unread",
                              status |-> code]
           /\ teamContext' = IF read /\ context = "ok" THEN ctx ELSE teamContext
           /\ pc' = IF code = 200 THEN "tools" ELSE "idle"
  /\ UNCHANGED <<toolRun>>
  /\ UNCHANGED chatVars
  /\ UNCHANGED pageVars
  /\ UNCHANGED membersVars

CreateIssueTool ==
  /\ pc = "tools" /\ toolRun = NoRun
  /\ \E a \in CreateIssueArgs, store \in StoreOutcomes :
       LET run == createIssueExecute(teamContext, a, store)
       IN  toolRun' = [tool |-> "createIssue", args |-> a, result |-> run.result,
                       call |-> run.call, store |-> storeOf(run, store)]
  /\ UNCHANGED <<pc, teamContext, chatRequest>>
  /\ UNCHANGED chatVars
  /\ UNCHANGED pageVars
  /\ UNCHANGED membersVars

UpdateIssueTool ==
  /\ pc = "tools" /\ toolRun = NoRun
  /\ \E a \in UpdateIssueArgs, issues \in IssueLists, store \in StoreOutcomes :
       LET run == updateIssueExecute(teamContext, a, issues, store)
       IN  toolRun' = [tool |-> "updateIssue", args |-> a, result |-> run.result,
                       call |-> run.call, store |-> storeOf(run, store),
                       issues |-> issuesRead(a, issues)]
  /\ UNCHANGED <<pc, teamContext, chatRequest>>
  /\ UNCHANGED chatVars
  /\ UNCHANGED pageVars
  /\ UNCHANGED membersVars

UpdateProjectTool ==
  /\ pc = "tools" /\ toolRun = NoRun
  /\ \E a \in UpdateProjectArgs, store \in StoreOutcomes :
       LET run == updateProjectExecute(teamContext, a, store)
       IN  toolRun' = [tool |-> "updateProject", args |-> a, result |-> run.result,
                       call |-> run.call, store |-> storeOf(run, store)]
  /\ UNCHANGED <<pc, teamContext, chatRequest>>
  /\ UNCHANGED chatVars
  /\ UNCHANGED pageVars
  /\ UNCHANGED membersVars

DeleteIssueTool ==
  /\ pc = "tools" /\ toolRun = NoRun
  /\ \E a \in DeleteIssueArgs, issues \in IssueLists, exists \in BOOLEAN,
        store \in StoreOutcomes :
       LET run == deleteIssueExecute(a, issues, exists, store)
       IN  toolRun' = [tool |-> "deleteIssue", args |-> a, result |-> run.result,
                       call |-> run.call, store |-> storeOf(run, store),
                       issues |-> issuesRead(a, issues),
                       issue |-> issueRead(a, issues, exists)]
  /\ UNCHANGED <<pc, teamContext, chatRequest>>
  /\ UNCHANGED chatVars
  /\ UNCHANGED pageVars
  /\ UNCHANGED membersVars

CreateProjectTool ==
  /\ pc = "tools" /\ toolRun = NoRun
  /\ \E a \in CreateProjectArgs, store \in StoreOutcomes :
       LET run == createProjectExecute(teamContext, a, store)
       IN  toolRun' = [tool |-> "createProject", args |-> a, result |-> run.result,
                       call |-> run.call, store |-> storeOf(run, store)]
  /\ UNCHANGED <<pc, teamContext, chatRequest>>
  /\ UNCHANGED chatVars
  /\ UNCHANGED pageVars
  /\ UNCHANGED membersVars

\* the tool result goes back to the model, which may call another tool
ToolReturn ==
  /\ pc = "tools" /\ toolRun # NoRun
  /\ toolRun' = NoRun
  /\ UNCHANGED <<pc, teamContext, chatRequest>>
  /\ UNCHANGED chatVars
  /\ UNCHANGED pageVars
  /\ UNCHANGED membersVars

\* the response stream ends
ChatPostDone ==
  /\ pc = "tools" /\ toolRun = NoRun
  /\ pc' = "idle"
  /\ UNCHANGED <<teamContext, toolRun, chatRequest>>
  /\ UNCHANGED chatVars
  /\ UNCHANGED pageVars
  /\ UNCHANGED membersVars

(***************************************************************************)
(* Refresh observer: the two effects, run after every render that changes  *)
(* status or messages                                                      *)
(***************************************************************************)
TargetedDelay == 400
SuccessDelay == 500
FallbackDelay == 700

UserMessage(id, text) ==
  [id |-> id, role |-> "user", hasParts |-> TRUE, parts |-> <<TextPart(text)>>,
   content |-> s_empty]
AssistantMessage(id, parts) ==
  [id |-> id, role |-> "assistant", hasParts |-> TRUE, parts |-> parts,
   content |-> s_empty]
\* a message restored from the conversation: { id, role, content }
StoredMessage(id, role, content) ==
  [id |-> id, role |-> role, hasParts |-> FALSE, parts |-> <<>>, content |-> content]

\* what the user types: a message, nothing, or blanks
t_blank == <<" ", " ">>
UserTexts == {t_Hi, s_empty, t_blank}

WhiteSpace == {" ", "\t", "\n"}

\* String.prototype.trim
RECURSIVE trim(_)
trim(str) ==
  IF str = <<>> THEN <<>>
  ELSE IF Head(str) \in WhiteSpace THEN trim(Tail(str))
  ELSE IF str[Len(str)] \in WhiteSpace THEN trim(SubSeq(str, 1, Len(str) - 1))
  ELSE str

\* const isLoading = status !== 'ready' && status !== 'error'
isLoading(st) == st # "ready" /\ st # "error"

\* variant: handleSubmit tests the input only
canSubmitWhileDisabled(input, disabled) == trim(input) # <<>>

\* ChatInput.handleSubmit: if (input.trim() && !disabled)
canSubmit(input, disabled) == trim(input) # <<>> /\ ~disabled

\* the parts of a streamed assistant message
AssistantResponses ==
  { <<TextPart(t_IssueCreated)>>,
    <<TextPart(t_MemberAdded)>>,
    <<TextPart(t_Hello)>>,
    <<ToolPart("tool-call", n_inviteTeamMember), TextPart(t_ProjectUpdated)>> }

\* the stored conversations, as <<role, content>> pairs
StoredConversations ==
  { conv \in UNION { [1..n -> {<<"user", t_IssueCreated>>, <<"assistant", t_IssueCreated>>,
                                <<"assistant", t_Hello>>}] : n \in 1..MaxLoaded } :
      \A i \in 1..(Len(conv) - 1) : conv[i][1] # conv[i + 1][1] }

\* variant: only the missing-id test, without the look-up in the set
skipMessageWithoutId(processed, id) == id = 0

\* !message.id || processedMessageIdsRef.current.has(message.id)
skipMessage(processed, id) == id \in processed

\* variant: the fallback is only set when no tool was found
fallbackDueUnlessTool(msgs, foundAnyTool) ==
  msgs[Len(msgs)].role = "assistant" /\ ~foundAnyTool

\* lastMessage && lastMessage.role === 'assistant'
fallbackDue(msgs, foundAnyTool) == msgs[Len(msgs)].role = "assistant"

\* isReady && wasLoading && messages.length > 0
turnCompleted(st, prev, msgs) == st = "ready" /\ prev # "ready" /\ Len(msgs) > 0

\* indices of the messages the status effect scans
statusEffectScans(st, prev, msgs, processed) ==
  IF turnCompleted(st, prev, msgs)
  THEN {i \in 1..Len(msgs) : ~skipMessage(processed, msgs[i].id)}
  ELSE {}

\* the timers the status effect schedules
statusEffectTimers(st, prev, msgs, processed, now) ==
  LET scanned == statusEffectScans(st, prev, msgs, processed)
      found == {i \in scanned : Len(scanToolNames(msgs[i])) > 0}
  IN  { [kind |-> "targeted", delay |-> TargetedDelay, at |-> now, id |-> msgs[i].id,
         tools |-> unique(scanToolNames(msgs[i])),
         toolString |-> toolStringOf(scanToolNames(msgs[i]))] : i \in found }
      \cup (IF turnCompleted(st, prev, msgs) /\ fallbackDue(msgs, found # {})
            THEN {[kind |-> "fallback", delay |-> FallbackDelay, at |-> now, id |-> 0,
                   tools |-> <<>>, toolString |-> s_empty]}
            ELSE {})

\* whether the messages-changed effect checks the last message
messagesEffectChecks(st, msgs, processed) ==
  /\ st = "ready" /\ Len(msgs) > 0
  /\ msgs[Len(msgs)].role = "assistant"
  /\ ~skipMessage(processed, msgs[Len(msgs)].id)

messagesEffectTimers(st, msgs, processed, now) ==
  LET last == msgs[Len(msgs)]
  IN  IF messagesEffectChecks(st, msgs, processed) /\ last.hasParts
         /\ successIndicators(textParts(last.parts))
      THEN {[kind |-> "success", delay |-> SuccessDelay, at |-> now, id |-> last.id,
             tools |-> <<>>, toolString |-> s_empty]}
      ELSE {}

\* Both effects, in declaration order, for the render with status st and
\* messages msgs.
RunEffects(st, msgs) ==
  LET scanned == {msgs[i].id :
                    i \in statusEffectScans(st, previousStatus, msgs, processedMessageIds)}
      processed1 == processedMessageIds \cup scanned
      checks == messagesEffectChecks(st, msgs, processed1)
      lastId == IF Len(msgs) > 0 THEN msgs[Len(msgs)].id ELSE 0
  IN  /\ timers' = timers
           \cup statusEffectTimers(st, previousStatus, msgs, processedMessageIds, turn')
           \cup messagesEffectTimers(st, msgs, processed1, turn')
      /\ processedMessageIds' = processed1 \cup (IF checks THEN {lastId} ELSE {})
      /\ scans' = [id \in 1..MaxId |->
                     [byStatus |-> scans[id].byStatus
                                     + (IF id \in scanned THEN 1 ELSE 0),
                      byMessages |-> scans[id].byMessages
                                       + (IF checks /\ id = lastId THEN 1 ELSE 0)]]
      /\ previousStatus' = st

\* the conversation query resolves and setMessages(initialMessages) runs
LoadConversation ==
  /\ messages = <<>>
  /\ \E conv \in StoredConversations :
       /\ messages' = [i \in 1..Len(conv) |-> StoredMessage(i, conv[i][1], conv[i][2])]
       /\ status' = status
       /\ turn' = turn
       /\ RunEffects(status, messages')
  /\ UNCHANGED dispatched
  /\ UNCHANGED routeVars
  /\ UNCHANGED pageVars
  /\ UNCHANGED membersVars

\* ChatInput.handleSubmit -> handleSend -> sendMessage; a submit that
\* handleSubmit drops changes nothing
SendMessage ==
  /\ turn < MaxTurns
  /\ \E text \in UserTexts :
       /\ canSubmit(text, isLoading(status))
       /\ messages' = Append(messages, UserMessage(MaxLoaded + 2 * turn + 1, text))
       /\ status' = "submitted"
       /\ turn' = turn + 1
       /\ RunEffects(status', messages')
  /\ UNCHANGED dispatched
  /\ UNCHANGED routeVars
  /\ UNCHANGED pageVars
  /\ UNCHANGED membersVars

\* the first chunk of the response arrives
StreamStart ==
  /\ status = "submitted"
  /\ \E parts \in AssistantResponses :
       /\ messages' = Append(messages, AssistantMessage(MaxLoaded + 2 * turn, parts))
       /\ status' = "streaming"
       /\ turn' = turn
       /\ RunEffects(status', messages')
  /\ UNCHANGED dispatched
  /\ UNCHANGED routeVars
  /\ UNCHANGED pageVars
  /\ UNCHANGED membersVars

\* the stream closes
StreamFinish ==
  /\ status = "streaming"
  /\ status' = "ready"
  /\ messages' = messages
  /\ turn' = turn
  /\ RunEffects(status', messages')
  /\ UNCHANGED dispatched
  /\ UNCHANGED routeVars
  /\ UNCHANGED pageVars
  /\ UNCHANGED membersVars

\* the request fails
ChatError ==
  /\ status = "submitted" \/ status = "streaming"
  /\ status' = "error"
  /\ messages' = messages
  /\ turn' = turn
  /\ RunEffects(status', messages')
  /\ UNCHANGED dispatched
  /\ UNCHANGED routeVars
  /\ UNCHANGED pageVars
  /\ UNCHANGED membersVars

\* what a timer callback dispatches
timerEvents(timer) ==
  IF timer.kind = "targeted" THEN targetedEvents(timer.toolString) ELSE AllEvents

\* setTimeout order: a timer set no later than another, with a delay no
\* longer, runs first (set in the same forEach: in message order)
timerBefore(other, timer) ==
  /\ other.at <= timer.at /\ other.delay <= timer.delay
  /\ other.at < timer.at \/ other.delay < timer.delay \/ other.id < timer.id

TimerFire ==
  /\ \E timer \in timers :
       /\ \A other \in timers : ~timerBefore(other, timer)
       /\ timers' = timers \ {timer}
       /\ dispatched' = dispatched \cup
            { [event |-> e, kind |-> timer.kind, at |-> timer.at, id |-> timer.id] :
              e \in timerEvents(timer) }
  /\ UNCHANGED <<status, previousStatus, messages, processedMessageIds, turn, scans>>
  /\ UNCHANGED routeVars
  /\ UNCHANGED pageVars
  /\ UNCHANGED membersVars

ChatNext ==
  \/ LoadConversation
  \/ SendMessage
  \/ StreamStart
  \/ StreamFinish
  \/ ChatError
  \/ TimerFire

ChatSpec == Init /\ [][ChatNext]_vars

\* the browser runs every pending timer callback
ChatLiveSpec == ChatSpec /\ WF_vars(TimerFire)

(***************************************************************************)
(* Dashboard pages: issues, projects and people, one mounted at a time     *)
(***************************************************************************)
PageKinds == {"issues", "projects", "people"}

RefreshDelay == 50

\* window.addEventListener(<event>, handleRefresh)
pageEvent(p) ==
  IF p = "issues" THEN "refresh-issues"
  ELSE IF p = "projects" THEN "refresh-projects"
  ELSE "refresh-people"

\* fetchIssues(), fetchProjects(), fetchData() of the mount effects
mountArgs == [forceRefresh |-> FALSE, silentRefresh |-> FALSE]

\* variant: the timer callback calls the fetch function without arguments
refreshArgsDefault == [forceRefresh |-> FALSE, silentRefresh |-> FALSE]

\* fetchIssuesRef.current(true, true), fetchProjectsRef.current(true),
\* fetchDataRef.current(true)
refreshArgs == [forceRefresh |-> TRUE, silentRefresh |-> TRUE]

\* cache: forceRefresh ? 'no-store' : 'default' on the issues page,
\* cache: silentRefresh ? 'no-store' : 'default' on the other two
fetchCache(p, args) ==
  IF p = "issues"
  THEN (IF args.forceRefresh THEN "no-store" ELSE "default")
  ELSE (IF args.silentRefresh THEN "no-store" ELSE "default")

\* if (!forceRefresh) { const cachedIssues = getCachedData(key); if (cachedIssues) ...
cacheHit(p, args, cache) ==
  p = "issues" /\ ~args.forceRefresh /\ cache # "empty"

\* The fetch function up to its await: the loading flag and the list it
\* leaves, and the request it sends (none on a cache hit).
startFetch(p, args, loading, data, cache) ==
  IF cacheHit(p, args, cache)
  THEN [loading |-> IF args.silentRefresh THEN loading ELSE FALSE,
        data |-> 0,
        request |-> <<>>]
  ELSE [loading |-> IF args.silentRefresh THEN loading ELSE TRUE,
        data |-> data,
        request |-> <<[silent |-> args.silentRefresh, cache |-> fetchCache(p, args)]>>]

\* the requests a started fetch adds to those in flight; event is the
\* refresh event that started it (0: the mount), preClear becomes TRUE when
\* clearAllCachedData runs while the request is in flight
requestsOf(started, p, mount, event) ==
  { [page |-> p, mount |-> mount, event |-> event, preClear |-> FALSE,
     silent |-> started.request[i].silent, cache |-> started.request[i].cache] :
    i \in 1..Len(started.request) }

\* navigation to a dashboard page: the component mounts and its effects run
PageMount ==
  /\ page = "none" /\ pageMount < MaxMounts
  /\ \E p \in PageKinds :
       LET started == startFetch(p, mountArgs, p # "issues", NoData, issuesCache)
       IN  /\ page' = p
           /\ pageMount' = pageMount + 1
           /\ pageLoading' = started.loading
           /\ pageData' = started.data
           /\ fetches' = fetches
                \cup requestsOf(started, p, pageMount', 0)
  /\ UNCHANGED <<refreshTimers, issuesCache, eventCount, handled, refetched>>
  /\ UNCHANGED routeVars
  /\ UNCHANGED chatVars
  /\ UNCHANGED membersVars

\* navigation away: the listener is removed, timers and requests stay
PageUnmount ==
  /\ page # "none"
  /\ page' = "none"
  /\ pageLoading' = FALSE
  /\ pageData' = NoData
  /\ UNCHANGED <<pageMount, refreshTimers, fetches, issuesCache, eventCount,
                 handled, refetched>>
  /\ UNCHANGED routeVars
  /\ UNCHANGED chatVars
  /\ UNCHANGED membersVars

\* the issue list requests in flight when clearAllCachedData runs were all
\* sent before it
sentBeforeClear(inFlight) ==
  { IF f.page = "issues" THEN [f EXCEPT !.preClear = TRUE] ELSE f
      : f \in inFlight }

\* window.dispatchEvent(new Event(e)): handleRefresh of the mounted page
\* runs when the page listens to e; otherwise nothing listens
RefreshEvent ==
  /\ eventCount < MaxEvents
  /\ \E e \in AllEvents :
       IF page # "none" /\ pageEvent(page) = e
       THEN /\ eventCount' = eventCount + 1
            /\ issuesCache' = IF page = "issues" THEN "empty" ELSE issuesCache
            /\ fetches' = IF page = "issues" THEN sentBeforeClear(fetches)
                          ELSE fetches
            /\ refreshTimers' = refreshTimers
                 \cup {[page |-> page, mount |-> pageMount, no |-> eventCount']}
            /\ handled' = handled \cup {eventCount'}
       ELSE UNCHANGED <<eventCount, issuesCache, fetches, refreshTimers, handled>>
  /\ UNCHANGED <<page, pageMount, pageLoading, pageData, refetched>>
  /\ UNCHANGED routeVars
  /\ UNCHANGED chatVars
  /\ UNCHANGED membersVars

\* the 50 ms timer of handleRefresh: the fetch function of the component
\* that set it runs; its state updates reach only a component still mounted
RefreshTimerFire ==
  /\ \E timer \in refreshTimers :
       /\ \A other \in refreshTimers : other.no >= timer.no
       /\ LET current == page = timer.page /\ pageMount = timer.mount
               started == startFetch(timer.page, refreshArgs, pageLoading, pageData,
                                     issuesCache)
               requests == requestsOf(started, timer.page, timer.mount, timer.no)
           IN  /\ refreshTimers' = refreshTimers \ {timer}
               /\ pageLoading' = IF current THEN started.loading ELSE pageLoading
               /\ pageData' = IF current THEN started.data ELSE pageData
               /\ fetches' = fetches \cup requests
               /\ refetched' = refetched
                    \cup {r.event : r \in {q \in requests : q.cache = "no-store"}}
  /\ UNCHANGED <<page, pageMount, issuesCache, eventCount, handled>>
  /\ UNCHANGED routeVars
  /\ UNCHANGED chatVars
  /\ UNCHANGED membersVars

\* setCachedData(issuesCacheKey, data) with the response to request f
setCachedData(f) == IF f.preClear THEN "outdated" ELSE "filled"

\* a list request settles: ok is response.ok
FetchDone ==
  /\ \E f \in fetches, ok \in BOOLEAN :
       LET current == page = f.page /\ pageMount = f.mount
       IN  /\ fetches' = fetches \ {f}
           /\ issuesCache' = IF ok /\ f.page = "issues"
                             THEN setCachedData(f)
                             ELSE issuesCache
           /\ pageData' = IF ok /\ current THEN f.event ELSE pageData
           /\ pageLoading' = IF current /\ ~f.silent THEN FALSE ELSE pageLoading
  /\ UNCHANGED <<page, pageMount, refreshTimers, eventCount, handled, refetched>>
  /\ UNCHANGED routeVars
  /\ UNCHANGED chatVars
  /\ UNCHANGED membersVars

\* CACHE_DURATION passes since the entry was written
CacheExpire ==
  /\ issuesCache # "empty"
  /\ issuesCache' = "empty"
  /\ UNCHANGED <<page, pageMount, pageLoading, pageData, refreshTimers, fetches,
                 eventCount, handled, refetched>>
  /\ UNCHANGED routeVars
  /\ UNCHANGED chatVars
  /\ UNCHANGED membersVars

PageNext ==
  \/ PageMount
  \/ PageUnmount
  \/ RefreshEvent
  \/ RefreshTimerFire
  \/ FetchDone
  \/ CacheExpire

PageSpec == Init /\ [][PageNext]_vars

\* the browser runs every pending timer callback
PageLiveSpec == PageSpec /\ WF_vars(RefreshTimerFire)

(***************************************************************************)
(* Team members route: DELETE /api/teams/[teamId]/members?memberId=        *)
(***************************************************************************)
TeamIds == {"t1", "t2"}
Sessions == {NoSession, "u1", "u2", "u3"}
MemberIds == {NoMemberId, "m1", "m2", "m3", "m4", "m9"}

Response(code, error) == [status |-> code, error |-> error]

\* db.teamMember.findMany({ where: { teamId } })
membersOfTeam(rows, teamId) == {m \in rows : m.teamId = teamId}

\* allMembers.some(m => m.role === 'admin')
hasAdmin(rows, teamId) == \E m \in membersOfTeam(rows, teamId) : m.role = "admin"

\* db.teamMember.findFirst({ where: { teamId, userId } })
currentMember(rows, teamId, userId) ==
  {m \in rows : m.teamId = teamId /\ m.userId = userId}

\* db.teamMember.findUnique({ where: { id: memberId } })
memberToRemove(rows, memberId) == {m \in rows : m.id = memberId}

\* variant: the requester's own membership is not told apart
isSelfNever(target, userId) == FALSE

\* memberToRemove.userId === userId
isSelf(target, userId) == target.userId = userId

\* The DELETE handler: the response and the rows it leaves; db is "throws"
\* when a database call fails.
membersDelete(rows, teamId, userId, memberId, db) ==
  LET current == currentMember(rows, teamId, userId)
      target == memberToRemove(rows, memberId)
      user == getUserId(userId)
  IN  IF user.threw
      THEN [response |-> Response(500, "Failed to remove team member"), rows |-> rows]
      ELSE IF user.id = NoSession
      THEN [response |-> Response(401, "Unauthorized"), rows |-> rows]
      ELSE IF memberId = NoMemberId
      THEN [response |-> Response(400, "Member ID is required"), rows |-> rows]
      ELSE IF db = "throws"
      THEN [response |-> Response(500, "Failed to remove team member"), rows |-> rows]
      ELSE IF ~hasAdmin(rows, teamId)
      THEN [response |-> Response(403, "No admin found in this team"), rows |-> rows]
      ELSE IF current # {} /\ \E m \in current : m.role # "admin"
      THEN [response |-> Response(403, "Only admins can remove team members"),
            rows |-> rows]
      ELSE IF target = {} \/ \E m \in target : m.teamId # teamId
      THEN [response |-> Response(404, "Team member not found"), rows |-> rows]
      ELSE IF \E m \in target : isSelf(m, userId)
      THEN [response |-> Response(400, "Cannot remove yourself"), rows |-> rows]
      ELSE [response |-> Response(200, "none"), rows |-> rows \ target]

MembersDelete ==
  /\ \E teamId \in TeamIds, userId \in Sessions, memberId \in MemberIds,
        db \in {"ok", "throws"} :
       LET done == membersDelete(teamMembers, teamId, userId, memberId, db)
       IN  /\ teamMembers' = done.rows
           /\ membersRun' = [op |-> "DELETE", teamId |-> teamId, userId |-> userId,
                             memberId |-> memberId, response |-> done.response]
  /\ UNCHANGED inviteVars
  /\ UNCHANGED middlewareRun
  /\ UNCHANGED routeVars
  /\ UNCHANGED chatVars
  /\ UNCHANGED pageVars

MembersNext == MembersDelete

MembersSpec == Init /\ [][MembersNext]_vars

(***************************************************************************)
(* Team members route: POST, accepting an invitation.  The handler is one  *)
(* step per database call, so that requests interleave at its awaits.      *)
(***************************************************************************)
AcceptSessions == {NoSession, "u2", "u3"}
InvitationIds == {"i1", "i2", "i3", "i9"}
NoInvitation == [id |-> "none"]

\* user.email of the signed-in user
userEmail(userId) ==
  IF userId = "u1" THEN "u1@x" ELSE IF userId = "u2" THEN "u2@x" ELSE "u3@x"

\* the id the database gives the row a request creates
newMemberId(no) == <<"x1", "x2", "x3", "x4">>[no]

\* db.invitation.findUnique({ where: { id: invitationId, teamId } })
findInvitation(rows, invitationId, teamId) ==
  LET found == {i \in rows : i.id = invitationId /\ i.teamId = teamId}
  IN  IF found = {} THEN NoInvitation ELSE CHOOSE i \in found : TRUE

\* variant: the email of the invitation is not compared
acceptRejectionAnyEmail(invitation, email) ==
  IF invitation = NoInvitation THEN Response(404, "Invitation not found")
  ELSE IF invitation.status # "pending"
  THEN Response(400, "Invitation is no longer valid")
  ELSE IF invitation.expired THEN Response(400, "Invitation has expired")
  ELSE Response(200, "none")

\* the checks on the invitation that was read: the rejection, or 200
acceptRejection(invitation, email) ==
  IF invitation = NoInvitation THEN Response(404, "Invitation not found")
  ELSE IF invitation.status # "pending"
  THEN Response(400, "Invitation is no longer valid")
  ELSE IF invitation.expired THEN Response(400, "Invitation has expired")
  ELSE IF invitation.email # email
  THEN Response(400, "Invitation email does not match your account")
  ELSE Response(200, "none")

\* variant: the table has no unique key on (teamId, userId)
memberKeyTakenNever(rows, teamId, userId) == FALSE

\* the unique key teamId_userId of db.teamMember: a create of a second row
\* for the pair is refused by the database
memberKeyTaken(rows, teamId, userId) ==
  \E m \in rows : m.teamId = teamId /\ m.userId = userId

\* db.invitation.update({ where: { id }, data: { status: 'accepted' } })
markAccepted(rows, invitationId) ==
  { IF i.id = invitationId THEN [i EXCEPT !.status = "accepted"] ELSE i : i \in rows }

\* the response of a request, as the last request of the route
finished(r, response, message) ==
  [op |-> r.op, no |-> r.no, teamId |-> r.teamId, userId |-> r.userId,
   invitationId |-> r.invitationId, response |-> response, message |-> message]

\* POST: getUserId(), getUser(); their throw is answered by the catch, with
\* the message of the error
AcceptStart ==
  /\ requestCount < MaxRequests
  /\ requestCount' = requestCount + 1
  /\ \E teamId \in TeamIds, userId \in AcceptSessions, invitationId \in InvitationIds :
       LET r == [op |-> "POST", no |-> requestCount', teamId |-> teamId, userId |-> userId,
                 invitationId |-> invitationId, pc |-> "findInvitation",
                 invitation |-> NoInvitation, existing |-> FALSE]
       IN  IF getUserId(userId).threw
           THEN /\ membersRun' = finished(r, Response(500, "Unauthorized"), "none")
                /\ memberRequests' = memberRequests
           ELSE IF userId = NoSession
           THEN /\ membersRun' = finished(r, Response(401, "Unauthorized"), "none")
                /\ memberRequests' = memberRequests
           ELSE /\ memberRequests' = memberRequests \cup {r}
                /\ membersRun' = membersRun
  /\ UNCHANGED <<teamMembers, invitations>>
  /\ UNCHANGED middlewareRun
  /\ UNCHANGED routeVars
  /\ UNCHANGED chatVars
  /\ UNCHANGED pageVars

\* POST: the invitation is read and checked
AcceptFindInvitation ==
  /\ \E r \in memberRequests :
       /\ r.op = "POST" /\ r.pc = "findInvitation"
       /\ LET invitation == findInvitation(invitations, r.invitationId, r.teamId)
               rejection == acceptRejection(invitation, userEmail(r.userId))
           IN  IF rejection.status # 200
               THEN /\ memberRequests' = memberRequests \ {r}
                    /\ membersRun' = finished(r, rejection, "none")
               ELSE /\ memberRequests' = (memberRequests \ {r})
                         \cup {[r EXCEPT !.pc = "findMember", !.invitation = invitation]}
                    /\ membersRun' = membersRun
  /\ UNCHANGED <<teamMembers, invitations, requestCount>>
  /\ UNCHANGED middlewareRun
  /\ UNCHANGED routeVars
  /\ UNCHANGED chatVars
  /\ UNCHANGED pageVars

\* POST: db.teamMember.findUnique({ where: { teamId_userId } })
AcceptFindMember ==
  /\ \E r \in memberRequests :
       /\ r.op = "POST" /\ r.pc = "findMember"
       /\ LET existing == \E m \in teamMembers :
                             m.teamId = r.teamId /\ m.userId = r.userId
           IN  memberRequests' = (memberRequests \ {r})
                 \cup {[r EXCEPT !.pc = IF existing THEN "markAccepted" ELSE "create",
                                 !.existing = existing]}
  /\ UNCHANGED <<teamMembers, membersRun, invitations, requestCount>>
  /\ UNCHANGED middlewareRun
  /\ UNCHANGED routeVars
  /\ UNCHANGED chatVars
  /\ UNCHANGED pageVars

\* POST: db.teamMember.create with the role of the invitation; a create the
\* database refuses throws, and the handler answers 500
AcceptCreate ==
  /\ \E r \in memberRequests :
       /\ r.op = "POST" /\ r.pc = "create"
       /\ IF memberKeyTaken(teamMembers, r.teamId, r.userId)
          THEN /\ memberRequests' = memberRequests \ {r}
               /\ membersRun' = finished(r, Response(500, "Unique constraint failed"),
                                          "none")
               /\ teamMembers' = teamMembers
          ELSE /\ teamMembers' = teamMembers
                    \cup {[id |-> newMemberId(r.no), teamId |-> r.teamId,
                           userId |-> r.userId, role |-> r.invitation.role]}
               /\ memberRequests' = (memberRequests \ {r})
                    \cup {[r EXCEPT !.pc = "markAccepted"]}
               /\ membersRun' = membersRun
  /\ UNCHANGED <<invitations, requestCount>>
  /\ UNCHANGED middlewareRun
  /\ UNCHANGED routeVars
  /\ UNCHANGED chatVars
  /\ UNCHANGED pageVars

\* POST: the invitation is marked accepted and the request succeeds; db is
\* "throws" when the update fails
AcceptMarkAccepted ==
  /\ \E r \in memberRequests, db \in {"ok", "throws"} :
       /\ r.op = "POST" /\ r.pc = "markAccepted"
       /\ memberRequests' = memberRequests \ {r}
       /\ IF db = "throws"
          THEN /\ invitations' = invitations
               /\ membersRun' = finished(r, Response(500, "Failed to accept invitation"),
                                          "none")
          ELSE /\ invitations' = markAccepted(invitations, r.invitationId)
               /\ membersRun' = finished(r, Response(200, "none"),
                                          IF r.existing THEN "Already a member"
                                          ELSE "none")
  /\ UNCHANGED <<teamMembers, requestCount>>
  /\ UNCHANGED middlewareRun
  /\ UNCHANGED routeVars
  /\ UNCHANGED chatVars
  /\ UNCHANGED pageVars

AcceptNext ==
  \/ AcceptStart
  \/ AcceptFindInvitation
  \/ AcceptFindMember
  \/ AcceptCreate
  \/ AcceptMarkAccepted

AcceptSpec == Init /\ [][AcceptNext]_vars

(***************************************************************************)
(* Chat route: the inviteTeamMember tool, which writes db.invitation       *)
(***************************************************************************)
\* params.teamId of the chat request
routeTeamId == "t1"

s_uniqueConstraint == <<"P","2","0","0","2">>

InviteOutcomes == {"ok", "throw", "throwAfterCreate"}

InviteArgs == [email : {"u2@x", "u3@x", "u4@x", "u5@x"},
               role : {"absent", "admin"}]

\* role: z.string().optional().default('developer')
inviteRole(role) == IF role = "absent" THEN "developer" ELSE role

\* the id the database gives a new invitation
newInvitationId(email) ==
  IF email = "u2@x" THEN "n2" ELSE IF email = "u3@x" THEN "n3"
  ELSE IF email = "u4@x" THEN "n4" ELSE "n5"

\* db.invitation.findUnique({ where: { teamId_email: { teamId, email } } })
existingInvitation(rows, teamId, email) ==
  {i \in rows : i.teamId = teamId /\ i.email = email}

\* variant: any invitation may be sent again
alreadyPendingNever(existing) == FALSE

\* existingInvitation?.status === 'pending'
alreadyPending(existing) == \E i \in existing : i.status = "pending"

\* inviteTeamMember.execute: the result and the rows it leaves.  db is
\* "throw" when the look-up fails and "throwAfterCreate" when the team
\* look-up after the create fails; a create for a (teamId, email) pair
\* that has a row is refused by the unique key teamId_email.
inviteTeamMemberExecute(rows, teamId, a, db) ==
  LET existing == existingInvitation(rows, teamId, a.email)
      created == [id |-> newInvitationId(a.email), teamId |-> teamId,
                  email |-> a.email, role |-> inviteRole(a.role),
                  status |-> "pending", expired |-> FALSE]
  IN  IF db = "throw"
      THEN [result |-> Failure(caught(thrownMessage(db), "failedToInvite")),
            rows |-> rows]
      ELSE IF alreadyPending(existing)
      THEN [result |-> Failure(ErrorText("invitationAlreadySent", <<>>, Undef, FALSE,
                                         "none", <<>>)),
            rows |-> rows]
      ELSE IF existing # {}
      THEN [result |-> Failure(caught(Str(s_uniqueConstraint), "failedToInvite")),
            rows |-> rows]
      ELSE IF db = "throwAfterCreate"
      THEN [result |-> Failure(caught(Str(s_dbDown), "failedToInvite")),
            rows |-> rows \cup {created}]
      ELSE [result |-> Success(NoIssue), rows |-> rows \cup {created}]

InviteTeamMemberTool ==
  /\ pc = "tools" /\ toolRun = NoRun
  /\ \E a \in InviteArgs, db \in InviteOutcomes :
       LET run == inviteTeamMemberExecute(invitations, routeTeamId, a, db)
       IN  /\ toolRun' = [tool |-> "inviteTeamMember", args |-> a,
                          result |-> run.result, call |-> NoCall, store |-> db]
           /\ invitations' = run.rows
  /\ UNCHANGED <<pc, teamContext, chatRequest>>
  /\ UNCHANGED <<teamMembers, membersRun, memberRequests, requestCount>>
  /\ UNCHANGED middlewareRun
  /\ UNCHANGED chatVars
  /\ UNCHANGED pageVars

\* an invitation is accepted outside the chat: its status becomes 'accepted'
InvitationAccepted ==
  /\ \E i \in invitations :
       /\ i.status = "pending"
       /\ invitations' = markAccepted(invitations, i.id)
  /\ UNCHANGED <<teamMembers, membersRun, memberRequests, requestCount>>
  /\ UNCHANGED middlewareRun
  /\ UNCHANGED routeVars
  /\ UNCHANGED chatVars
  /\ UNCHANGED pageVars

InviteNext ==
  \/ ChatPost
  \/ InviteTeamMemberTool
  \/ ToolReturn
  \/ ChatPostDone
  \/ InvitationAccepted

InviteSpec == Init /\ [][InviteNext]_vars

(***************************************************************************)
(* middleware.ts: the session gate in front of the pages                   *)
(***************************************************************************)
p_signIn == <<"/","s","i","g","n","-","i","n">>
p_signUp == <<"/","s","i","g","n","-","u","p">>
p_dashboard == <<"/","d","a","s","h","b","o","a","r","d">>
p_dashboardSlash == <<"/","d","a","s","h","b","o","a","r","d","/">>
p_dashboardIssues == <<"/","d","a","s","h","b","o","a","r","d","/","t","1","/","i","s","s","u","e","s">>
p_dashboards == <<"/","d","a","s","h","b","o","a","r","d","s">>
p_root == <<"/">>

Pathnames == {p_signIn, p_signUp, p_dashboard, p_dashboardIssues, p_dashboards, p_root}

c_sessionToken == "better-auth.session_token"
c_secureSessionToken == "__Secure-better-auth.session_token"
c_session == "better-auth.session"
c_theme == "theme"

CookieNames == {c_sessionToken, c_secureSessionToken, c_session, c_theme}

\* String.prototype.startsWith
startsWith(str, prefix) ==
  Len(str) >= Len(prefix) /\ SubSeq(str, 1, Len(prefix)) = prefix

\* config.matcher: "/dashboard/:path*", "/sign-in", "/sign-up"
matcher(pathname) ==
  \/ pathname = p_signIn \/ pathname = p_signUp
  \/ pathname = p_dashboard \/ startsWith(pathname, p_dashboardSlash)

\* what getSessionCookie(request) can do with the cookies of a request: it
\* finds the session token under its plain or __Secure- name, or throws
SessionCookieOutcomes(cookies) ==
  {"throws"} \cup (IF c_sessionToken \in cookies \/ c_secureSessionToken \in cookies
                   THEN {"cookie"} ELSE {"none"})

\* variant: a failing helper counts as a session
hasSessionOrThrown(cookies, helper) == helper # "none"

\* hasSession: the helper, and on its throw the two cookie names
hasSession(cookies, helper) ==
  IF helper = "throws"
  THEN c_sessionToken \in cookies \/ c_session \in cookies
  ELSE helper = "cookie"

Redirect(to, param) == [kind |-> "redirect", to |-> to, redirect |-> param]
NextResponse == [kind |-> "next", to |-> <<>>, redirect |-> <<>>]

\* middleware(request)
middleware(pathname, cookies, helper) ==
  IF pathname = p_signIn \/ pathname = p_signUp THEN NextResponse
  ELSE IF startsWith(pathname, p_dashboard) /\ ~hasSession(cookies, helper)
  THEN Redirect(p_signUp, IF pathname # p_dashboard THEN pathname ELSE <<>>)
  ELSE NextResponse

\* a page request: the middleware runs on the paths of its matcher
PageRequest ==
  /\ \E pathname \in Pathnames, cookies \in SUBSET CookieNames :
       \E helper \in SessionCookieOutcomes(cookies) :
         middlewareRun' =
           [op |-> "page", pathname |-> pathname, cookies |-> cookies,
            helper |-> helper,
            response |-> IF matcher(pathname)
                         THEN middleware(pathname, cookies, helper)
                         ELSE NextResponse]
  /\ UNCHANGED <<teamMembers, membersRun, invitations, memberRequests, requestCount>>
  /\ UNCHANGED routeVars
  /\ UNCHANGED chatVars
  /\ UNCHANGED pageVars

MiddlewareNext == PageRequest

MiddlewareSpec == Init /\ [][MiddlewareNext]_vars

Next ==
  \/ ChatPost
  \/ CreateIssueTool
  \/ UpdateIssueTool
  \/ UpdateProjectTool
  \/ DeleteIssueTool
  \/ CreateProjectTool
  \/ ToolReturn
  \/ ChatPostDone

Spec == Init /\ [][Next]_vars

(***************************************************************************)
(* Properties of the refresh observer                                      *)
(***************************************************************************)
LastIsAssistant == Len(messages) > 0 /\ messages[Len(messages)].role = "assistant"

\* turn k has completed: the status is back to 'ready' after the k-th send
TurnCompleted(k) == turn = k /\ status = "ready"

FallbackDispatched(k) ==
  \A e \in AllEvents :
    [event |-> e, kind |-> "fallback", at |-> k, id |-> 0] \in dispatched

\* C1: whenever the status goes from a non-'ready' value to 'ready' with a
\* non-empty message list whose last message is from the assistant, the
\* fallback timer eventually dispatches refresh-issues, refresh-projects and
\* refresh-people, whatever the text and whether or not a targeted refresh
\* was scheduled for the same turn.
C1_FallbackAlwaysFires ==
  \A k \in 1..MaxTurns : (TurnCompleted(k) /\ LastIsAssistant) ~> FallbackDispatched(k)

\* a turn for which both the targeted timer and the fallback timer have fired
C1_Witness ==
  \E k \in 1..MaxTurns :
    /\ FallbackDispatched(k)
    /\ \E d \in dispatched : d.kind = "targeted" /\ d.at = k

\* C2: once a message id is in the processed set, no effect scans it again
\* and no per-message timer is set for it again; so every id is scanned at
\* most once over the lifetime of the component.
C2_ScannedAtMostOnce ==
  [][ /\ \A id \in processedMessageIds :
           /\ scans'[id] = scans[id]
           /\ \A timer \in timers' \ timers :
                timer.kind = "fallback" \/ timer.id # id
      /\ \A id \in 1..MaxId : scans'[id].byStatus + scans'[id].byMessages <= 1 ]_vars

\* a second turn has completed while a message of the first turn, scanned
\* once, is still in the list
C2_Witness ==
  /\ turn = 2 /\ status = "ready" /\ previousStatus = "ready"
  /\ \E i \in 1..Len(messages) :
       /\ messages[i].id = MaxLoaded + 2
       /\ messages[i].id \in processedMessageIds
       /\ scans[messages[i].id].byStatus = 1

HasIssueAndCreated(text) ==
  includes(toLowerCase(text), k_issue) /\ includes(toLowerCase(text), k_created)

IssuesRefreshDispatchedFor(id) ==
  \E d \in dispatched : d.event = "refresh-issues" /\ d.kind = "targeted" /\ d.id = id

IssuesRefreshSetFor(id) ==
  \/ IssuesRefreshDispatchedFor(id)
  \/ \E timer \in timers : timer.kind = "targeted" /\ timer.id = id
                              /\ refreshesIssues(timer.toolString)

PartsWithIssueCreated ==
  { parts \in AssistantResponses \cup { <<TextPart(text)>> : text \in UserTexts } :
      HasIssueAndCreated(join(textsOf(parts), k_space)) }

\* a message scanned when a turn completes that carries a parts array whose
\* text parts, joined by a space, contain "issue" and "created"
IssueCreatedInParts ==
  { messages[i].id : i \in { j \in 1..Len(messages) :
                               /\ scans[messages[j].id].byStatus > 0
                               /\ messages[j].hasParts
                               /\ messages[j].parts \in PartsWithIssueCreated } }

IssuesRefreshDispatched ==
  { d.id : d \in { e \in dispatched : e.event = "refresh-issues" /\ e.kind = "targeted" } }

IssueToolNames ==
  {n_createIssue, n_createIssues, n_updateIssue, n_updateIssues, n_deleteIssue,
   n_deleteIssues}
ProjectToolNames ==
  {n_createProject, n_createProjects, n_updateProject, n_deleteProject}
ProjectMemberToolNames ==
  {n_addProjectMember, n_removeProjectMember, n_listProjectMembers}
PeopleToolNames ==
  {n_inviteTeamMember, n_inviteTeamMembers, n_revokeInvitation, n_removeTeamMember}

\* C4: the targeted dispatch maps every tool name found for a message to its
\* category: issue tools to refresh-issues, project and project-member tools
\* to refresh-projects, invitation/member tools to refresh-people.
C4_EveryToolMapped ==
  \A timer \in timers :
    timer.kind = "targeted" =>
      \A i \in 1..Len(timer.tools) :
        /\ timer.tools[i] \in IssueToolNames
             => "refresh-issues" \in timerEvents(timer)
        /\ timer.tools[i] \in ProjectToolNames \cup ProjectMemberToolNames
             => "refresh-projects" \in timerEvents(timer)
        /\ timer.tools[i] \in PeopleToolNames
             => "refresh-people" \in timerEvents(timer)

(***************************************************************************)
(* Properties of the chat tools                                            *)
(***************************************************************************)
\* a text argument that carries a value: a non-empty string other than the
\* serialised "null" and "undefined"
PresentText(v) == v.t = "string" /\ v.s \notin {s_empty, s_null, s_undefined}

NullOrUndefined(v) == v.t = "null" \/ v.t = "undefined"

IsCreateIssueRun == toolRun.tool = "createIssue"

NamedFields(err) == {err.fields[i] : i \in 1..Len(err.fields)}

ListsTeamProjects(err) ==
  /\ err.projectGuide # "none"
  /\ Len(teamContext.projects) > 0 =>
       /\ err.projectGuide = "listing"
       /\ Len(err.listing) = Len(teamContext.projects)
       /\ \A i \in 1..Len(err.listing) :
            err.listing[i].name = teamContext.projects[i].name

\* C5: for createIssue with title and workflow state present, the
\* clarification is chosen by the subset of {priority, project} that is
\* missing: priority alone gives the priority guidance without any mention
\* of projects, project alone gives the project guidance without any mention
\* of priority, and both give the priority enumeration and the project
\* guidance.
C5_ClarificationBySubset ==
  (IsCreateIssueRun /\ PresentText(toolRun.args.title)
     /\ PresentText(toolRun.args.workflowStateId)) =>
    LET err == toolRun.result.error
        noPriority == NullOrUndefined(toolRun.args.priority)
        noProject == ~PresentText(toolRun.args.projectId)
    IN  /\ (noPriority /\ ~noProject) =>
             /\ err.kind = "priorityOnly" /\ err.priorityGuide
             /\ err.projectGuide = "none" /\ err.listing = <<>>
             /\ "project" \notin NamedFields(err)
        /\ (~noPriority /\ noProject) =>
             /\ err.kind = "projectOnly" /\ ~err.priorityGuide
             /\ ListsTeamProjects(err)
             /\ "priority" \notin NamedFields(err)
        /\ (noPriority /\ noProject) =>
             /\ err.kind = "priorityAndProject" /\ err.priorityGuide
             /\ ListsTeamProjects(err)

\* both are missing in a team that has projects to list
C5_Witness ==
  /\ IsCreateIssueRun
  /\ toolRun.result.error.kind = "priorityAndProject"
  /\ toolRun.result.error.projectGuide = "listing"
  /\ PresentText(toolRun.args.title)

\* a project reference that names a project of the snapshot by id, key or name
ResolvableProject(ref) ==
  /\ ref.t = "string"
  /\ \E i \in 1..Len(teamContext.projects) :
       LET p == teamContext.projects[i]
       IN  p.id = ref.s \/ toLowerCase(p.key) = toLowerCase(ref.s)
             \/ toLowerCase(p.name) = toLowerCase(ref.s)

\* C6: a draft with title, workflow state and a resolvable project whose
\* priority is the explicit 'none' reaches the store with priority 'none'; a
\* null or undefined priority fails validation and no store call is made
\* for it.
C6_ExplicitNoneOnly ==
  IsCreateIssueRun =>
    /\ (PresentText(toolRun.args.title) /\ PresentText(toolRun.args.workflowStateId)
          /\ ResolvableProject(toolRun.args.projectId)
          /\ toolRun.args.priority = Str(s_none)) =>
         /\ toolRun.call.op = "createIssue"
         /\ toolRun.call.data.priority = Str(s_none)
    /\ NullOrUndefined(toolRun.args.priority) =>
         /\ ~toolRun.result.success
         /\ toolRun.call.op = "none"
         /\ "priority" \in NamedFields(toolRun.result.error)

\* an explicit 'none' has reached the store
C6_Witness ==
  /\ IsCreateIssueRun
  /\ toolRun.args.priority = Str(s_none)
  /\ toolRun.call.op = "createIssue"
  /\ toolRun.call.data.priority = Str(s_none)

\* the required fields of createIssue that the arguments leave out
MissingOfDraft(a) ==
  (IF PresentText(a.title) THEN {} ELSE {"title"})
  \cup (IF PresentText(a.workflowStateId) THEN {} ELSE {"status (workflow state)"})
  \cup (IF NullOrUndefined(a.priority) THEN {"priority"} ELSE {})
  \cup (IF PresentText(a.projectId) THEN {} ELSE {"project"})

GenericMissingKinds == {"missing", "missingWithPriority", "missingWithProject"}

\* C7: when any of title, workflow state, priority or project is missing,
\* createIssue returns success:false with an error naming every missing
\* field and calls no store create; every missing set other than {priority},
\* {project} and {priority, project} gets the enumerated "Missing required
\* information" message.
C7_MissingFieldsRefused ==
  (IsCreateIssueRun /\ MissingOfDraft(toolRun.args) # {}) =>
    /\ ~toolRun.result.success
    /\ toolRun.call.op = "none"
    /\ MissingOfDraft(toolRun.args) \subseteq NamedFields(toolRun.result.error)
    /\ MissingOfDraft(toolRun.args)
           \notin {{"priority"}, {"project"}, {"priority", "project"}}
         => toolRun.result.error.kind \in GenericMissingKinds

\* all four fields are missing and all four are named
C7_Witness ==
  /\ IsCreateIssueRun
  /\ Cardinality(MissingOfDraft(toolRun.args)) = 4
  /\ Cardinality(NamedFields(toolRun.result.error)) = 4

NoAssigneeSpellings == {Null, Str(s_unassigned), Str(s_null), Str(s_undefined)}

\* C8: an assignee of null, "unassigned", "null" or "undefined" is 'no
\* assignee' in createIssue and in updateIssue: the store never receives it
\* as an identifier.
C8_NoAssigneeSpellings ==
  (toolRun.tool \in {"createIssue", "updateIssue"}
     /\ toolRun.args.assigneeId \in NoAssigneeSpellings
     /\ toolRun.call.op # "none") =>
    toolRun.call.data.assigneeId \in {Null, Undef, Absent}

\* ids of the elements whose name equals the reference in any letter case
ExactNameIds(coll, ref) ==
  {coll[i].id : i \in {j \in 1..Len(coll) :
                          ref.t = "string"
                          /\ toLowerCase(coll[j].name) = toLowerCase(ref.s)}}

MemberIdsNamed(ref) ==
  {teamContext.members[i].userId :
     i \in {j \in 1..Len(teamContext.members) :
              ref.t = "string"
              /\ toLowerCase(teamContext.members[j].userName) = toLowerCase(ref.s)}}

\* C9: a reference equal, in any letter case, to the name of an element of
\* the snapshot resolves to that element's id: project, workflow state,
\* assignee and labels in createIssue/updateIssue, and the project located by
\* name in updateProject, also when another project's name contains the text.
C9_ExactNameResolves ==
  /\ (toolRun.tool \in {"createIssue", "updateIssue"} /\ toolRun.call.op # "none") =>
       LET a == toolRun.args
           data == toolRun.call.data
       IN  /\ ExactNameIds(teamContext.workflowStates, a.workflowStateId) # {} =>
                /\ data.workflowStateId.t = "string"
                /\ data.workflowStateId.s
                     \in ExactNameIds(teamContext.workflowStates, a.workflowStateId)
           /\ (MemberIdsNamed(a.assigneeId) # {}
                 /\ a.assigneeId \notin NoAssigneeSpellings) =>
                /\ data.assigneeId.t = "string"
                /\ data.assigneeId.s \in MemberIdsNamed(a.assigneeId)
           /\ a.labelIds.t = "array" =>
                \A i \in 1..Len(a.labelIds.s) :
                  ExactNameIds(teamContext.labels, Str(a.labelIds.s[i])) # {} =>
                    data.labelIds.s[i]
                      \in ExactNameIds(teamContext.labels, Str(a.labelIds.s[i]))
  /\ (IsCreateIssueRun /\ MissingOfDraft(toolRun.args) = {}
        /\ ExactNameIds(teamContext.projects, toolRun.args.projectId) # {}) =>
       /\ toolRun.call.op = "createIssue"
       /\ toolRun.call.data.projectId.s
            \in ExactNameIds(teamContext.projects, toolRun.args.projectId)
  /\ (toolRun.tool = "updateProject" /\ ~Truthy(toolRun.args.projectId)
        /\ ExactNameIds(teamContext.projects, toolRun.args.name) # {}) =>
       /\ toolRun.call.op = "updateProject"
       /\ toolRun.call.id.s \in ExactNameIds(teamContext.projects, toolRun.args.name)

\* a supplied reference that matches no element by id or by name
MatchesNone(ids, names, ref) ==
  /\ PresentText(ref)
  /\ ref.s \notin ids
  /\ \A n \in names : toLowerCase(n) # toLowerCase(ref.s)

FieldOf(coll, f) == {coll[i][f] : i \in 1..Len(coll)}

\* the references of the run that match nothing in the snapshot
UnresolvedReferences ==
  LET a == toolRun.args
      ctx == teamContext
  IN  (IF toolRun.tool = "createIssue"
            /\ MatchesNone(FieldOf(ctx.projects, "id"),
                           FieldOf(ctx.projects, "name") \cup FieldOf(ctx.projects, "key"),
                           a.projectId)
       THEN {a.projectId} ELSE {})
      \cup (IF MatchesNone(FieldOf(ctx.workflowStates, "id"),
                          FieldOf(ctx.workflowStates, "name"), a.workflowStateId)
            THEN {a.workflowStateId} ELSE {})
      \cup (IF a.assigneeId \notin NoAssigneeSpellings
               /\ MatchesNone(FieldOf(ctx.members, "userId"),
                              FieldOf(ctx.members, "userName"), a.assigneeId)
            THEN {a.assigneeId} ELSE {})
      \cup (IF a.labelIds.t = "array"
            THEN {Str(a.labelIds.s[i]) :
                    i \in {j \in 1..Len(a.labelIds.s) :
                             MatchesNone(FieldOf(ctx.labels, "id"),
                                         FieldOf(ctx.labels, "name"),
                                         Str(a.labelIds.s[j]))}}
            ELSE {})

\* the run got past the required-field checks and the lookup of the issue
ReachedResolution ==
  /\ toolRun.tool \in {"createIssue", "updateIssue"}
  /\ toolRun.result.error.kind
       \notin GenericMissingKinds
               \cup {"priorityOnly", "projectOnly", "priorityAndProject",
                     "noIssueFound", "multipleIssues", "issueIdOrTitle"}

\* C10: when a supplied project, workflow-state, assignee or label reference
\* matches no element of the snapshot, the tool returns an error naming the
\* unresolved value and makes no store call.
C10_UnresolvedRefused ==
  (ReachedResolution /\ UnresolvedReferences # {}) =>
    /\ ~toolRun.result.success
    /\ toolRun.call.op = "none"
    /\ toolRun.result.error.quoted \in UnresolvedReferences

\* the projects whose name contains the reference in any letter case
ContainingProjects(ref) ==
  SelectSeq(teamContext.projects,
            LAMBDA p : includes(toLowerCase(p.name), toLowerCase(ref.s)))

\* the reference is contained in the names of two projects and equals no
\* project's id, key or name
AmbiguousProject(ref) ==
  /\ PresentText(ref)
  /\ Len(ContainingProjects(ref)) >= 2
  /\ ~ResolvableProject(ref)

ListingNames(err) == {err.listing[i].name : i \in 1..Len(err.listing)}

\* C11: when the project reference of createIssue, or the name given to
\* updateProject, is contained in the names of two projects and equals none
\* of them, the tool refuses with an ambiguity error that lists every
\* candidate: it neither picks one of them nor reports the reference as not
\* found.
C11_AmbiguousSurfaced ==
  /\ (IsCreateIssueRun /\ MissingOfDraft(toolRun.args) = {}
        /\ AmbiguousProject(toolRun.args.projectId)) =>
       /\ ~toolRun.result.success
       /\ toolRun.call.op = "none"
       /\ toolRun.result.error.kind # "projectNotFound"
       /\ FieldOf(ContainingProjects(toolRun.args.projectId), "name")
            \subseteq ListingNames(toolRun.result.error)
  /\ (toolRun.tool = "updateProject" /\ ~Truthy(toolRun.args.projectId)
        /\ AmbiguousProject(toolRun.args.name)) =>
       /\ ~toolRun.result.success
       /\ toolRun.call.op = "none"
       /\ toolRun.result.error.kind = "multipleProjects"
       /\ toolRun.result.error.listing = ContainingProjects(toolRun.args.name)

\* no value, or the id of an element of the collection
IdOrNothing(v, ids) == v \in {Absent, Undef, Null} \/ (v.t = "string" /\ v.s \in ids)

\* C12: every createIssue and updateIssue call sent to the store carries,
\* for project, workflow state, assignee and labels, nothing or ids of
\* elements of the team snapshot; a raw name that did not resolve is never
\* passed to the store.
C12_ResolvedIdsOnly ==
  (toolRun.tool \in {"createIssue", "updateIssue"} /\ toolRun.call.op # "none") =>
    LET data == toolRun.call.data
    IN  /\ IdOrNothing(data.workflowStateId, FieldOf(teamContext.workflowStates, "id"))
        /\ IdOrNothing(data.assigneeId, FieldOf(teamContext.members, "userId"))
        /\ data.labelIds.t = "array" =>
             \A i \in 1..Len(data.labelIds.s) :
               data.labelIds.s[i] \in FieldOf(teamContext.labels, "id")
        /\ toolRun.tool = "createIssue" =>
             /\ data.projectId.t = "string"
             /\ data.projectId.s \in FieldOf(teamContext.projects, "id")

\* the four spellings of an absent argument
AbsentSpellings == {Null, Undef, Str(s_null), Str(s_undefined)}

\* C13: null, undefined, "null" and "undefined" are absent values: a required
\* field of createIssue holding one of them is reported as missing and no
\* store call is made, and an optional reference (assignee, labels, the
\* workflow state of updateIssue) holding one of them reaches the store as
\* no value.
C13_AbsentSpellings ==
  /\ IsCreateIssueRun =>
       LET a == toolRun.args
           required == (IF a.title \in AbsentSpellings THEN {"title"} ELSE {})
                       \cup (IF a.workflowStateId \in AbsentSpellings
                             THEN {"status (workflow state)"} ELSE {})
                       \cup (IF a.priority \in AbsentSpellings THEN {"priority"} ELSE {})
                       \cup (IF a.projectId \in AbsentSpellings THEN {"project"} ELSE {})
       IN  required # {} =>
             /\ ~toolRun.result.success
             /\ toolRun.call.op = "none"
             /\ required \subseteq NamedFields(toolRun.result.error)
  /\ (toolRun.tool \in {"createIssue", "updateIssue"} /\ toolRun.call.op # "none") =>
       LET a == toolRun.args
           data == toolRun.call.data
       IN  /\ a.assigneeId \in AbsentSpellings =>
                data.assigneeId \in {Null, Undef, Absent}
           /\ a.labelIds \in AbsentSpellings =>
                data.labelIds \in {Null, Undef, Absent}
           /\ (toolRun.tool = "updateIssue" /\ a.workflowStateId \in AbsentSpellings) =>
                data.workflowStateId \in {Undef, Absent}

\* the texts the catch blocks fall back to
FallbackKinds ==
  {"failedToCreate", "failedToUpdate", "failedToUpdateProject", "failedToDelete",
   "failedToCreateProject"}

\* C14: every tool execution ends in a structured outcome: success with no
\* error, or success:false with an error text. When the store call throws,
\* the outcome is success:false carrying the thrown error's message (the
\* tool's own failure text when the error has no message), and the store
\* was called once, by the operation of the tool.
C14_StoreFailureReturned ==
  toolRun.tool # "none" =>
    /\ toolRun.result.success => toolRun.result.error = NoError
    /\ ~toolRun.result.success => toolRun.result.error.kind # "none"
    /\ toolRun.store \in {"throw", "throwEmpty"} =>
         /\ ~toolRun.result.success
         /\ toolRun.call.op = toolRun.tool
    /\ toolRun.store = "throw" =>
         /\ toolRun.result.error.kind = "storeError"
         /\ toolRun.result.error.quoted = Str(s_dbDown)
    /\ toolRun.store = "throwEmpty" => toolRun.result.error.kind \in FallbackKinds

\* the store threw "db down" under updateIssue and the tool returned it
C14_Witness ==
  /\ toolRun.tool = "updateIssue"
  /\ toolRun.store = "throw"
  /\ ~toolRun.result.success
  /\ toolRun.result.error.quoted = Str(s_dbDown)

\* the issues read by the run whose title contains the title searched for
TitleMatches ==
  SelectSeq(toolRun.issues,
            LAMBDA i : includes(toLowerCase(i.title), toLowerCase(toolRun.args.title.s)))

\* C15: when updateIssue or deleteIssue locates its issue by title, or
\* updateProject its project by name, and more than one entity matches, the
\* tool returns an error that lists every match and makes no update or
\* delete call.
C15_MultipleMatchesRefused ==
  /\ (toolRun.tool \in {"updateIssue", "deleteIssue"}
        /\ Truthy(toolRun.args.title) /\ ~Truthy(toolRun.args.issueId)
        /\ Len(TitleMatches) > 1) =>
       /\ ~toolRun.result.success
       /\ toolRun.call.op = "none"
       /\ toolRun.result.error.kind = "multipleIssues"
       /\ toolRun.result.error.listing = TitleMatches
  /\ (toolRun.tool = "updateProject"
        /\ Truthy(toolRun.args.name) /\ ~Truthy(toolRun.args.projectId)
        /\ Len(ContainingProjects(toolRun.args.name)) > 1) =>
       /\ ~toolRun.result.success
       /\ toolRun.call.op = "none"
       /\ toolRun.result.error.kind = "multipleProjects"
       /\ toolRun.result.error.listing = ContainingProjects(toolRun.args.name)

\* deleteIssue found two issues whose titles contain "fix" and listed both
C15_Witness ==
  /\ toolRun.tool = "deleteIssue"
  /\ toolRun.args.title = Str(s_fix)
  /\ Len(TitleMatches) = 2
  /\ Len(toolRun.result.error.listing) = 2
  /\ toolRun.call.op = "none"

IsCreateProjectRun == toolRun.tool = "createProject"

\* C16 as stated: without a color createProject sends '#6366f1' and without a
\* status 'active'; every supplied color or status is sent unchanged.
C16_DefaultsOrUnchanged ==
  IsCreateProjectRun =>
    LET a == toolRun.args
        data == toolRun.call.data
    IN  /\ toolRun.call.op = "createProject"
        /\ data.color = (IF a.color = Undef THEN Str(s_6366f1) ELSE a.color)
        /\ data.status = (IF a.status = Undef THEN Str(s_active) ELSE a.status)

\* C16 (amended): without a color, or with an empty one, createProject sends
\* '#6366f1', and without a status 'active'; a non-empty color and a supplied
\* status are sent unchanged.
C16_DefaultsOrNonEmptyUnchanged ==
  IsCreateProjectRun =>
    LET a == toolRun.args
        data == toolRun.call.data
    IN  /\ toolRun.call.op = "createProject"
        /\ data.color = (IF a.color \in {Undef, Str(s_empty)}
                         THEN Str(s_6366f1) ELSE a.color)
        /\ data.status = (IF a.status = Undef THEN Str(s_active) ELSE a.status)

\* a project created with the color 'red' and no status
C16_Witness ==
  /\ IsCreateProjectRun
  /\ toolRun.args.color = Str(s_red) /\ toolRun.args.status = Undef
  /\ toolRun.call.data.color = Str(s_red)
  /\ toolRun.call.data.status = Str(s_active)

\* C18: a user message is sent only while the chat status is 'ready' or
\* 'error', so no turn starts while another is in flight, and the text sent
\* is never empty or blank.
C18_OneTurnInFlight ==
  [][turn' # turn =>
       /\ ~isLoading(status)
       /\ status' = "submitted"
       /\ LET sent == messages'[Len(messages')]
          IN  /\ sent.role = "user"
              /\ trim(sent.parts[1].text.s) # <<>>]_vars

\* a second message has been sent after the first turn ended
C18_Witness ==
  /\ turn = 2 /\ status = "submitted"
  /\ messages[Len(messages)].role = "user"
  /\ messages[Len(messages)].parts = <<TextPart(t_Hi)>>

(***************************************************************************)
(* Properties of the dashboard pages                                       *)
(***************************************************************************)
\* C17: every refresh event handled by the listener of a mounted page is
\* followed by a list request of that page sent with cache 'no-store', and
\* the step that sends it leaves the page's loading flag as it was.
C17_RefreshRefetches ==
  /\ \A n \in 1..MaxEvents : (n \in handled) ~> (n \in refetched)
  /\ [][refetched' # refetched => pageLoading' = pageLoading]_vars

\* the people page, loaded and idle, has re-fetched after a refresh-people
\* event without showing its loading state
C17_Witness ==
  /\ page = "people" /\ pageData # NoData /\ ~pageLoading
  /\ handled # {} /\ handled \subseteq refetched
  /\ \E f \in fetches : f.page = "people" /\ f.cache = "no-store" /\ f.silent

(***************************************************************************)
(* Properties of the team members route                                    *)
(***************************************************************************)
\* C19: a DELETE removes a membership only when the requester is a member of
\* the team of the request with role 'admin'.
C19_OnlyAdminsRemove ==
  [][teamMembers' # teamMembers =>
       \E m \in teamMembers :
         /\ m.teamId = membersRun'.teamId
         /\ m.userId = membersRun'.userId
         /\ m.role = "admin"]_vars

\* C20 as stated: a DELETE by a signed-in requester that names a member never
\* removes the requester's own membership or one of another team; when the
\* target's userId is the requester's the answer is 400, when the target
\* does not belong to the team in the URL the answer is 404, and the
\* membership remains.
C20_SelfIs400OtherTeamIs404 ==
  [][(membersRun'.op = "DELETE" /\ membersRun'.userId # NoSession
        /\ membersRun'.memberId # NoMemberId
        /\ membersRun'.response.status # 500) =>
       LET run == membersRun'
           target == {m \in teamMembers : m.id = run.memberId}
       IN  /\ \A m \in teamMembers \ teamMembers' :
                m.userId # run.userId /\ m.teamId = run.teamId
           /\ (\E m \in target : m.userId = run.userId) =>
                run.response.status = 400 /\ teamMembers' = teamMembers
           /\ (\E m \in target : m.teamId # run.teamId) =>
                run.response.status = 404 /\ teamMembers' = teamMembers]_vars

\* C20 (amended): a DELETE never removes the requester's own membership or a
\* membership of another team than the one in the URL; a request that gets
\* past the session, memberId and admin checks is answered 404 when its
\* target is not a membership of that team, otherwise 400 when the target is
\* the requester's own membership, and every membership remains.
C20_NeverSelfNorOtherTeam ==
  [][membersRun'.op = "DELETE" =>
       LET run == membersRun'
           target == {m \in teamMembers : m.id = run.memberId}
           inTeam == {m \in target : m.teamId = run.teamId}
           checked == run.memberId # NoMemberId
                        /\ run.response.status \notin {401, 403, 500}
       IN  /\ \A m \in teamMembers \ teamMembers' :
                m.userId # run.userId /\ m.teamId = run.teamId
           /\ (checked /\ inTeam = {}) =>
                run.response.status = 404 /\ teamMembers' = teamMembers
           /\ (checked /\ \E m \in inTeam : m.userId = run.userId) =>
                run.response.status = 400 /\ teamMembers' = teamMembers]_vars

\* the admin of t1 asked to remove their own membership and was refused
C20_Witness ==
  /\ membersRun.op = "DELETE"
  /\ membersRun.teamId = "t1" /\ membersRun.userId = "u1" /\ membersRun.memberId = "m1"
  /\ membersRun.response = Response(400, "Cannot remove yourself")
  /\ \E m \in teamMembers : m.id = "m1"

(***************************************************************************)
(* Properties of accepting an invitation                                   *)
(***************************************************************************)
\* the request that takes the step, when the step is one of a request in flight
AcceptCreates(r) ==
  /\ r \in memberRequests /\ r.op = "POST" /\ r.pc = "create"
  /\ teamMembers' # teamMembers

\* C21: an accept creates a membership only for an invitation that it read
\* as existing for the team, pending, not expired and sent to the email of
\* the accepting user, and the membership has the invitation's role; a
\* request that is rejected (404 or 400, or for want of a session) has
\* created no membership and changes no invitation.
C21_AcceptOnlyValid ==
  [][/\ teamMembers' # teamMembers =>
          \E r \in memberRequests :
            /\ AcceptCreates(r)
            /\ r.invitation \in invitations
            /\ r.invitation.id = r.invitationId /\ r.invitation.teamId = r.teamId
            /\ r.invitation.status = "pending" /\ ~r.invitation.expired
            /\ r.invitation.email = userEmail(r.userId)
            /\ teamMembers' \ teamMembers =
                 {[id |-> newMemberId(r.no), teamId |-> r.teamId, userId |-> r.userId,
                   role |-> r.invitation.role]}
     /\ (membersRun' # membersRun /\ membersRun'.op = "POST"
           /\ \/ membersRun'.response.status \in {400, 401, 404}
              \/ membersRun'.userId = NoSession) =>
          /\ teamMembers' = teamMembers /\ invitations' = invitations
          /\ \A m \in teamMembers : m.id # newMemberId(membersRun'.no)]_vars

\* u3 accepted the invitation to t1 and is a developer of t1
C21_Witness ==
  /\ membersRun.op = "POST" /\ membersRun.response.status = 200
  /\ membersRun.userId = "u3" /\ membersRun.invitationId = "i1"
  /\ \E m \in teamMembers :
       m.teamId = "t1" /\ m.userId = "u3" /\ m.role = "developer"
  /\ requestCount = 2

\* no two memberships of one user in one team
OneMembershipPerUser(rows) ==
  \A m1 \in rows, m2 \in rows :
    (m1.teamId = m2.teamId /\ m1.userId = m2.userId) => m1 = m2

C23_NoSecondPendingInvitation ==
  [][/\ \A i1 \in invitations', i2 \in invitations' :
          (/\ i1.teamId = i2.teamId /\ i1.email = i2.email
           /\ i1.status = "pending" /\ i2.status = "pending") => i1 = i2
     /\ (toolRun = NoRun /\ toolRun' # NoRun /\ toolRun'.tool = "inviteTeamMember"
           /\ toolRun'.store # "throw"
           /\ \E i \in invitations :
                /\ i.teamId = routeTeamId /\ i.email = toolRun'.args.email
                /\ i.status = "pending") =>
          /\ toolRun'.result.success = FALSE
          /\ toolRun'.result.error.kind = "invitationAlreadySent"
          /\ invitations' = invitations]_vars

\* a second invitation of u4, whose first invitation is pending, was refused
C23_Witness ==
  /\ toolRun # NoRun /\ toolRun.tool = "inviteTeamMember"
  /\ toolRun.args.email = "u4@x"
  /\ toolRun.result.success = FALSE
  /\ toolRun.result.error.kind = "invitationAlreadySent"
  /\ \E i \in invitations : i.email = "u4@x" /\ i.status = "pending"

(***************************************************************************)
(* Properties of the chat POST endpoint                                    *)
(***************************************************************************)
\* C24: a chat POST without a signed-in user is answered 401, and one of a
\* signed-in user without any API key is answered 400; in both cases no
\* tool runs and no invitation is written.
C24_UnauthorizedIs401 ==
  [][(pc = "idle" /\ chatRequest' # chatRequest) =>
       /\ chatRequest'.session = NoSession =>
            /\ chatRequest'.status = 401
            /\ pc' = "idle" /\ toolRun' = NoRun /\ invitations' = invitations
       /\ (chatRequest'.session # NoSession /\ chatRequest'.context = "ok"
            /\ ~chatRequest'.apiKey) =>
            /\ chatRequest'.status = 400
            /\ pc' = "idle" /\ toolRun' = NoRun /\ invitations' = invitations]_vars

(***************************************************************************)
(* Properties of the middleware                                            *)
(***************************************************************************)
SessionCookies == {c_sessionToken, c_secureSessionToken, c_session}

\* C25 as stated: a request to a path that starts with /dashboard and
\* carries no session cookie is redirected to /sign-up, with the path in
\* 'redirect' unless it is exactly /dashboard, also when the helper throws;
\* /sign-in and /sign-up are never redirected.
C25_DashboardPrefixRedirected ==
  middlewareRun.op = "page" =>
    /\ (startsWith(middlewareRun.pathname, p_dashboard)
         /\ middlewareRun.cookies \cap SessionCookies = {}) =>
          middlewareRun.response =
            Redirect(p_signUp, IF middlewareRun.pathname # p_dashboard
                               THEN middlewareRun.pathname ELSE <<>>)
    /\ middlewareRun.pathname \in {p_signIn, p_signUp} =>
          middlewareRun.response = NextResponse

\* C25 (amended): the same for /dashboard and the paths below it
\* (/dashboard/...), the paths the middleware is configured to run on.
C25_DashboardRedirected ==
  middlewareRun.op = "page" =>
    /\ (/\ \/ middlewareRun.pathname = p_dashboard
            \/ startsWith(middlewareRun.pathname, p_dashboardSlash)
         /\ middlewareRun.cookies \cap SessionCookies = {}) =>
          middlewareRun.response =
            Redirect(p_signUp, IF middlewareRun.pathname # p_dashboard
                               THEN middlewareRun.pathname ELSE <<>>)
    /\ middlewareRun.pathname \in {p_signIn, p_signUp} =>
          middlewareRun.response = NextResponse

\* /dashboard/t1/issues without cookies, the helper throwing: redirected
\* with the path in 'redirect'
C25_Witness ==
  /\ middlewareRun.op = "page"
  /\ middlewareRun.pathname = p_dashboardIssues
  /\ middlewareRun.cookies = {} /\ middlewareRun.helper = "throws"
  /\ middlewareRun.response = Redirect(p_signUp, p_dashboardIssues)

(***************************************************************************)
(* Properties of the update and delete calls                               *)
(***************************************************************************)
IsUpdateIssueCall == toolRun.tool = "updateIssue" /\ toolRun.call.op = "updateIssue"

UnassignSpellings == {Null, Str(s_unassigned), Str(s_null), Str(s_undefined)}

\* C26: the update object of updateIssue has a field only when the caller
\* supplied the argument it comes from; without assigneeId it has neither
\* assigneeId nor assignee, and its assigneeId is null exactly when the
\* argument is null or one of the unassign tokens.
C26_OnlySuppliedFields ==
  IsUpdateIssueCall =>
    LET a == toolRun.args
        data == toolRun.call.data
    IN  /\ data.title # Absent => a.newTitle # Undef
        /\ data.description # Absent => a.description # Undef
        /\ data.workflowStateId # Absent => a.workflowStateId # Undef
        /\ data.priority # Absent => a.priority # Undef
        /\ data.estimate # Absent => a.estimate # Undef
        /\ data.labelIds # Absent => a.labelIds # Undef
        /\ a.assigneeId = Undef <=> data.assigneeId = Absent
        /\ a.assigneeId = Undef <=> data.assignee = Absent
        /\ data.assigneeId = Null <=> a.assigneeId \in UnassignSpellings

\* an update of the title alone: the call carries no assignee
C26_Witness ==
  /\ IsUpdateIssueCall
  /\ toolRun.args.assigneeId = Undef /\ toolRun.args.newTitle = Str(s_Fix)
  /\ toolRun.call.data.title = Str(s_Fix)
  /\ toolRun.call.data.assigneeId = Absent

\* C27: deleteIssue calls the store's delete only with the id of an issue
\* it located, by the id given or by the one title match, and that
\* getIssueById found; with neither title nor id, without a title match or
\* for an id that does not exist it answers success:false and makes no call.
C27_DeleteOnlyLocated ==
  toolRun.tool = "deleteIssue" =>
    LET a == toolRun.args
        byTitle == Truthy(a.title) /\ ~Truthy(a.issueId)
        located == IF byTitle
                   THEN (IF Len(TitleMatches) = 1 THEN Str(TitleMatches[1].id) ELSE Undef)
                   ELSE a.issueId
    IN  /\ toolRun.call.op \in {"none", "deleteIssue"}
        /\ toolRun.call.op = "deleteIssue" =>
             /\ Truthy(located) /\ toolRun.call.id = located
             /\ toolRun.issue = "issue"
        /\ (\/ ~Truthy(a.title) /\ ~Truthy(a.issueId)
            \/ byTitle /\ Len(TitleMatches) = 0
            \/ Truthy(located) /\ toolRun.issue = "null") =>
             ~toolRun.result.success /\ toolRun.call.op = "none"

\* the one issue whose title contains "login" was located, but is gone
C27_Witness ==
  /\ toolRun.tool = "deleteIssue"
  /\ toolRun.args.title = Str(s_login) /\ toolRun.args.issueId = Undef
  /\ Len(toolRun.issues) = 2 /\ toolRun.issue = "null"
  /\ toolRun.result.error.kind = "issueNotFound"
  /\ toolRun.call.op = "none"

(***************************************************************************)
(* Members route, GET: the member list, one step per await                 *)
(***************************************************************************)

\* t1 has members, t3 has none
GetTeamIds == {"t1", "t3"}
GetSessions == {NoSession, "u1", "u3"}

\* GET: getUserId(), getUser(); their throw is answered by the catch
GetStart ==
  /\ requestCount < MaxRequests
  /\ requestCount' = requestCount + 1
  /\ \E teamId \in GetTeamIds, userId \in GetSessions :
       LET r == [op |-> "GET", no |-> requestCount', teamId |-> teamId, userId |-> userId,
                 invitationId |-> "none", pc |-> "findMany"]
       IN  IF getUserId(userId).threw
           THEN /\ membersRun' = finished(r, Response(500, "Failed to fetch team members"),
                                          "none")
                /\ memberRequests' = memberRequests
           ELSE /\ memberRequests' = memberRequests \cup {r}
                /\ membersRun' = membersRun
  /\ UNCHANGED <<teamMembers, invitations>>
  /\ UNCHANGED middlewareRun
  /\ UNCHANGED routeVars
  /\ UNCHANGED chatVars
  /\ UNCHANGED pageVars

\* GET: db.teamMember.findMany, then teamMembers.length === 0 && user; the
\* list that is not empty is answered as it was read
GetFindMany ==
  /\ \E r \in memberRequests :
       /\ r.op = "GET" /\ r.pc = "findMany"
       /\ IF membersOfTeam(teamMembers, r.teamId) = {}
          THEN /\ memberRequests' = (memberRequests \ {r}) \cup {[r EXCEPT !.pc = "create"]}
               /\ membersRun' = membersRun
          ELSE /\ memberRequests' = memberRequests \ {r}
               /\ membersRun' = finished(r, Response(200, "none"), "members")
  /\ UNCHANGED <<teamMembers, invitations, requestCount>>
  /\ UNCHANGED middlewareRun
  /\ UNCHANGED routeVars
  /\ UNCHANGED chatVars
  /\ UNCHANGED pageVars

\* GET: db.teamMember.create of the caller as admin; the unique key refuses a
\* second row of the caller in the team and the catch answers 500
GetCreate ==
  /\ \E r \in memberRequests :
       /\ r.op = "GET" /\ r.pc = "create"
       /\ memberRequests' = memberRequests \ {r}
       /\ IF memberKeyTaken(teamMembers, r.teamId, r.userId)
          THEN /\ teamMembers' = teamMembers
               /\ membersRun' = finished(r, Response(500, "Failed to fetch team members"),
                                         "none")
          ELSE /\ teamMembers' = teamMembers
                    \cup {[id |-> newMemberId(r.no), teamId |-> r.teamId,
                           userId |-> r.userId, role |-> "admin"]}
               /\ membersRun' = finished(r, Response(200, "none"), "created")
  /\ UNCHANGED <<invitations, requestCount>>
  /\ UNCHANGED middlewareRun
  /\ UNCHANGED routeVars
  /\ UNCHANGED chatVars
  /\ UNCHANGED pageVars

GetNext == GetStart \/ GetFindMany \/ GetCreate

GetSpec == Init /\ [][GetNext]_vars

\* C28: after a refresh-issues event the issues page cache never holds data
\* of a request that was sent before the event cleared it: a request in
\* flight at the event does not fill the cache again
C28_CacheNeverOutdated == issuesCache # "outdated"

\* C29: while the issues page stays mounted, the list shown is never replaced
\* by the response to a fetch started earlier than the one it is from
C29_LateResponseNeverOverwrites ==
  [][(/\ page = "issues" /\ page' = page /\ pageMount' = pageMount
      /\ pageData # NoData /\ pageData' # NoData)
        => pageData' >= pageData]_vars

\* C30: a members GET creates a membership only in a team that has no member
\* at that moment, so that a team without members gets exactly one admin
\* also when such requests interleave, and a team with members gets none
C30_CreatesOnlyFirstMember ==
  [][teamMembers' # teamMembers /\ membersRun'.op = "GET"
       => membersOfTeam(teamMembers, membersRun'.teamId) = {}]_vars

====
